---------------------------- MODULE Spec2Model ----------------------------
(***************************************************************************)
(* Model of the spreadsheet extraction engine of fastapi_stock_prediction: *)
(* the value normalizers and extractors of app/services/excel_utils.py and *)
(* the batch pass of app/services/data_processor.py over the store of      *)
(* app/core/database_sqlalchemy.py.                                        *)
(*                                                                         *)
(* Cell texts, sheet names and symbols are TLA+ strings, handled character *)
(* by character (Len, SubSeq, \o).  A Python float is an exact decimal     *)
(* n/d with d a power of ten in lowest such form; within the text lengths  *)
(* used here this agrees with IEEE doubles.  Python values of mixed type   *)
(* (None / number / text, int / text) are tagged records.                  *)
(***************************************************************************)
EXTENDS Integers, Sequences, FiniteSets, TLC

(***************************************************************************)
(* Characters and text                                                     *)
(***************************************************************************)
Digits == "0123456789"
LowerLetters == "abcdefghijklmnopqrstuvwxyz"
UpperLetters == "ABCDEFGHIJKLMNOPQRSTUVWXYZ"

CharAt(s, i) == SubSeq(s, i, i)

CharSet(s) == { CharAt(s, i) : i \in 1..Len(s) }

DigitChars == CharSet(Digits)

LowerChars == CharSet(LowerLetters)

UpperChars == CharSet(UpperLetters)

AlnumChars == DigitChars \cup LowerChars \cup UpperChars

SpaceChars == {" ", "\t", "\n", "\r"}

IsDigit(c) == c \in DigitChars

IsSpace(c) == c \in SpaceChars

IsAlnum(c) == c \in AlnumChars

\* \w of Python's re: letters, digits and the underscore
IsWordChar(c) == c \in AlnumChars \/ c = "_"

IndexIn(s, c) == CHOOSE i \in 1..Len(s) : CharAt(s, i) = c

ToUpper == [c \in LowerChars |-> CharAt(UpperLetters, IndexIn(LowerLetters, c))]

ToLower == [c \in UpperChars |-> CharAt(LowerLetters, IndexIn(UpperLetters, c))]

UpperChar(c) == IF c \in LowerChars THEN ToUpper[c] ELSE c

LowerChar(c) == IF c \in UpperChars THEN ToLower[c] ELSE c

RECURSIVE MapChars(_, _)
MapChars(F(_), s) == IF s = "" THEN "" ELSE F(Head(s)) \o MapChars(F, Tail(s))

Upper(s) == MapChars(UpperChar, s)

Lower(s) == MapChars(LowerChar, s)

RECURSIVE LStrip(_)
LStrip(s) == IF s # "" /\ IsSpace(Head(s)) THEN LStrip(Tail(s)) ELSE s

RECURSIVE RStrip(_)
RStrip(s) == IF s # "" /\ IsSpace(CharAt(s, Len(s))) THEN RStrip(SubSeq(s, 1, Len(s) - 1)) ELSE s

Strip(s) == RStrip(LStrip(s))

StartsWith(s, p) == Len(p) <= Len(s) /\ SubSeq(s, 1, Len(p)) = p

EndsWith(s, p) == Len(p) <= Len(s) /\ SubSeq(s, Len(s) - Len(p) + 1, Len(s)) = p

\* Python's  sub in s
Contains(s, sub) == \E i \in 1..(Len(s) - Len(sub) + 1) : SubSeq(s, i, i + Len(sub) - 1) = sub

\* re.sub of every character outside the class P by the empty text
RECURSIVE KeepChars(_, _)
KeepChars(P(_), s) ==
    IF s = "" THEN ""
    ELSE (IF P(Head(s)) THEN Head(s) ELSE "") \o KeepChars(P, Tail(s))

RECURSIVE Join(_, _)
Join(sep, parts) ==
    IF parts = <<>> THEN ""
    ELSE IF Len(parts) = 1 THEN parts[1]
    ELSE parts[1] \o sep \o Join(sep, Tail(parts))

DigitVal(c) == IndexIn(Digits, c) - 1

DigitChar(k) == CharAt(Digits, k + 1)

\* int(s) for a text of decimal digits; 0 for the empty text
RECURSIVE DigitsToInt(_)
DigitsToInt(s) == IF s = "" THEN 0 ELSE 10 * DigitsToInt(SubSeq(s, 1, Len(s) - 1)) + DigitVal(CharAt(s, Len(s)))

RECURSIVE IntToDigits(_)
IntToDigits(k) == IF k < 10 THEN DigitChar(k) ELSE IntToDigits(k \div 10) \o DigitChar(k % 10)

RECURSIVE Pow10(_)
Pow10(k) == IF k = 0 THEN 1 ELSE 10 * Pow10(k - 1)

(***************************************************************************)
(* Python values: None, a number, a text                                   *)
(***************************************************************************)
None == [kind |-> "none", n |-> 0, d |-> 1, t |-> ""]

RECURSIVE Num(_, _)
Num(n, d) == IF d > 1 /\ n % 10 = 0 THEN Num(n \div 10, d \div 10) ELSE [kind |-> "num", n |-> n, d |-> d, t |-> ""]

Txt(s) == [kind |-> "text", n |-> 0, d |-> 1, t |-> s]

\* -x of a number; None stays None
Neg(x) == IF x.kind = "num" THEN Num(0 - x.n, x.d) ELSE x

Sub(x, y) == LET d == IF x.d >= y.d THEN x.d ELSE y.d
             IN  Num(x.n * (d \div x.d) - y.n * (d \div y.d), d)

\* Python truthiness of a value:  not x
Falsy(x) == x.kind = "none" \/ (x.kind = "num" /\ x.n = 0) \/ (x.kind = "text" /\ x.t = "")

\* the number read from the unsigned text body, whose digits are digs and
\* which holds dots points; None stands for ValueError
FloatOf(body, digs, dots) ==
    IF digs = "" \/ dots > 1 \/ Len(digs) + dots # Len(body) THEN None
    ELSE Num(DigitsToInt(digs), Pow10(Len(body) - (IF dots = 1 THEN IndexIn(body, ".") ELSE Len(body))))

IsDot(c) == c = "."

UnsignedFloat(body) == FloatOf(body, KeepChars(IsDigit, body), Len(KeepChars(IsDot, body)))

SignedFloat(u) ==
    IF u # "" /\ Head(u) = "-" THEN Neg(UnsignedFloat(Tail(u)))
    ELSE UnsignedFloat(IF u # "" /\ Head(u) = "+" THEN Tail(u) ELSE u)

\* float(s) of a text: optional sign, digits with at most one point and at
\* least one digit, surrounding whitespace ignored; None stands for ValueError
\* (exponents, "inf" and "nan" are not among the texts of the inputs)
PyFloat(s) == SignedFloat(Strip(s))

\* the digits of a natural number grouped in threes by commas
RECURSIVE Grouped(_)
Grouped(k) ==
    IF k < 1000 THEN IntToDigits(k)
    ELSE LET r == k % 1000
         IN  Grouped(k \div 1000) \o "," \o DigitChar(r \div 100) \o DigitChar((r \div 10) % 10) \o DigitChar(r % 10)

\* f"{x:,.0f}" : round half to even, group the integer digits
FormatF0(x) ==
    LET m == IF x.n < 0 THEN 0 - x.n ELSE x.n
        q == m \div x.d
        r == m % x.d
        k == IF 2 * r > x.d \/ (2 * r = x.d /\ q % 2 = 1) THEN q + 1 ELSE q
    IN  (IF x.n < 0 THEN "-" ELSE "") \o Grouped(k)

(***************************************************************************)
(* ExcelUtils.format_number, to_number, strike_key                         *)
(***************************************************************************)
\* try: return f"{float(x):,.0f}"  except: return str(x)
FormatOr(v, t) == IF v.kind = "num" THEN FormatF0(v) ELSE t

format_number(x) ==
    IF Falsy(x) THEN ""
    ELSE IF x.kind = "num" THEN FormatF0(x)
    ELSE FormatOr(PyFloat(x.t), x.t)

IsDigitOrDot(c) == IsDigit(c) \/ c = "."

\* float(s_clean), None for ValueError
CleanFloat(s) == PyFloat(KeepChars(IsDigitOrDot, s))

\* mutant: the parenthesized form read as a positive number
Unparenthesized_NeverNegative(s) == CleanFloat(s)

\* neg = s.startswith("(") and s.endswith(")"); if neg: s = s[1:-1]
Unparenthesized(s) ==
    IF StartsWith(s, "(") /\ EndsWith(s, ")") THEN Neg(CleanFloat(SubSeq(s, 2, Len(s) - 1)))
    ELSE CleanFloat(s)

to_number(s) == IF s = "" THEN None ELSE Unparenthesized(Strip(s))

IntKey(k) == [int |-> TRUE, n |-> k, s |-> ""]

StrKey(s) == [int |-> FALSE, n |-> 0, s |-> s]

\* mutant: a text without digits kept in its own case
KeyOf_NoUpper(s_clean, s) == IF s_clean # "" THEN IntKey(DigitsToInt(s_clean)) ELSE StrKey(s)

\* int(s_clean) if s_clean.isdigit() else str(s).upper()
KeyOf(s_clean, s) == IF s_clean # "" THEN IntKey(DigitsToInt(s_clean)) ELSE StrKey(Upper(s))

strike_key(s) == IF s = "" THEN StrKey("") ELSE KeyOf(KeepChars(IsDigit, s), s)

(***************************************************************************)
(* ExcelUtils.try_parse_date, pick_latest_sheet.  A parsed date is the     *)
(* number yyyymmdd (ordered as the datetime is); NoDate stands for None.   *)
(***************************************************************************)
NoDate == 0

MonthAbbr == <<"JAN", "FEB", "MAR", "APR", "MAY", "JUN", "JUL", "AUG", "SEP", "OCT", "NOV", "DEC">>

AllDigits(s) == s # "" /\ KeepChars(IsDigit, s) = s

\* the pieces of s between the characters of class P (str.split on one char)
RECURSIVE SplitOn(_, _, _)
SplitOn(P(_), s, cur) ==
    IF s = "" THEN <<cur>>
    ELSE IF P(Head(s)) THEN <<cur>> \o SplitOn(P, Tail(s), "")
    ELSE SplitOn(P, Tail(s), cur \o Head(s))

\* runs of whitespace count as one separator (the \s+ strptime makes of a space)
RECURSIVE SquashSpaces(_)
SquashSpaces(s) ==
    IF Len(s) < 2 THEN s
    ELSE IF IsSpace(Head(s)) /\ IsSpace(Head(Tail(s))) THEN SquashSpaces(Tail(s))
    ELSE Head(s) \o SquashSpaces(Tail(s))

DayValue(q) == IF AllDigits(q) /\ Len(q) <= 2 /\ DigitsToInt(q) >= 1 /\ DigitsToInt(q) <= 31 THEN DigitsToInt(q) ELSE 0

\* strptime's %d: 1..31, one or two digits, a leading zero or space allowed
DayOf(p) == DayValue(IF Len(p) = 2 /\ Head(p) = " " THEN Tail(p) ELSE p)

\* %m: 1..12, one or two digits
MonthOf(p) == IF AllDigits(p) /\ Len(p) <= 2 /\ DigitsToInt(p) >= 1 /\ DigitsToInt(p) <= 12 THEN DigitsToInt(p) ELSE 0

\* %b: the abbreviated month name, any case
MonthAbbrOf(p) == IF \E m \in 1..12 : MonthAbbr[m] = Upper(p) THEN CHOOSE m \in 1..12 : MonthAbbr[m] = Upper(p) ELSE 0

\* %Y: exactly four digits, and datetime wants a year >= 1
YearOf(p) == IF AllDigits(p) /\ Len(p) = 4 THEN DigitsToInt(p) ELSE 0

DaysIn(m, y) ==
    IF m \in {4, 6, 9, 11} THEN 30
    ELSE IF m # 2 THEN 31
    ELSE IF (y % 4 = 0 /\ y % 100 # 0) \/ y % 400 = 0 THEN 29 ELSE 28

MkDate(y, m, d) == IF y >= 1 /\ m >= 1 /\ d >= 1 /\ d <= DaysIn(m, y) THEN y * 10000 + m * 100 + d ELSE NoDate

\* the separator of the fields of a format
SepOf(fmt) == IF fmt = "%d.%m.%Y" THEN "." ELSE IF fmt = "%d/%m/%Y" THEN "/" ELSE IF fmt = "%d %b %Y" THEN " " ELSE "-"

IsDotSep(c) == c = "."

IsSlashSep(c) == c = "/"

IsDashSep(c) == c = "-"

\* the fields of txt under a format
FieldsOf(txt, sep) ==
    IF sep = " " THEN SplitOn(IsSpace, SquashSpaces(txt), "")
    ELSE IF sep = "." THEN SplitOn(IsDotSep, txt, "")
    ELSE IF sep = "/" THEN SplitOn(IsSlashSep, txt, "")
    ELSE SplitOn(IsDashSep, txt, "")

\* the month field under %m or %b
MonthIn(p, fmt) == IF fmt \in {"%d-%b-%Y", "%d %b %Y"} THEN MonthAbbrOf(p) ELSE MonthOf(p)

\* the date of three fields in the order year, month, day
DateOf(y, m, d, fmt) == MkDate(YearOf(y), MonthIn(m, fmt), DayOf(d))

DateOfFields(parts, fmt) ==
    IF Len(parts) # 3 THEN NoDate
    ELSE IF fmt = "%Y-%m-%d" THEN DateOf(parts[1], parts[2], parts[3], fmt)
    ELSE DateOf(parts[3], parts[2], parts[1], fmt)

\* datetime.strptime(txt, fmt) for the six formats of try_parse_date, NoDate for ValueError
Strptime(txt, fmt) == DateOfFields(FieldsOf(txt, SepOf(fmt)), fmt)

DateFormats == <<"%d.%m.%Y", "%d-%m-%Y", "%Y-%m-%d", "%d/%m/%Y", "%d-%b-%Y", "%d %b %Y">>

RECURSIVE FirstDate(_, _)
\* return the parsed date, or continue with the next format
ReturnOrContinue(d, t, i) == IF d # NoDate THEN d ELSE FirstDate(t, i + 1)

\* for fmt in (...): try: return datetime.strptime(txt, fmt) except: continue
FirstDate(t, i) == IF i > Len(DateFormats) THEN NoDate ELSE ReturnOrContinue(Strptime(t, DateFormats[i]), t, i)

try_parse_date(txt) == FirstDate(Strip(txt), 1)

\* if d: candidates.append((d, name))
Candidate(d, name) == IF d # NoDate THEN <<[d |-> d, name |-> name]>> ELSE <<>>

\* the (date, name) pairs of the names that parse, in list order
RECURSIVE Candidates(_)
Candidates(sheet_names) ==
    IF sheet_names = <<>> THEN <<>>
    ELSE Candidate(try_parse_date(Head(sheet_names)), Head(sheet_names)) \o Candidates(Tail(sheet_names))

\* mutant: the first pair that parsed, whatever its date
MaxByDate_FirstCandidate(cands) == cands[1]

\* max(candidates, key=date): the first pair of the greatest date
MaxByDate(cands) ==
    cands[CHOOSE i \in 1..Len(cands) :
            /\ \A j \in 1..Len(cands) : cands[j].d <= cands[i].d
            /\ \A j \in 1..(i - 1) : cands[j].d < cands[i].d]

\* mutant: the target date ignored
PickAmong_IgnoreTarget(candidates, sheet_names, target_date) ==
    IF candidates = <<>> THEN sheet_names[Len(sheet_names)] ELSE MaxByDate(candidates).name

\* the choice among the candidates
PickAmong(candidates, sheet_names, target_date) ==
    LET matches == { i \in 1..Len(candidates) : candidates[i].d = target_date }
    IN  IF candidates = <<>> THEN sheet_names[Len(sheet_names)]
        ELSE IF target_date # NoDate /\ matches # {}
             THEN candidates[CHOOSE i \in matches : \A j \in matches : i <= j].name
        ELSE MaxByDate(candidates).name

pick_latest_sheet(sheet_names, target_date) == PickAmong(Candidates(sheet_names), sheet_names, target_date)

(***************************************************************************)
(* Documents.  A file is [state, sheets]: state "ok" (a complete workbook),*)
(* "missing" (no such path) or "partial" (being written: not a readable    *)
(* workbook); sheets is the workbook, a sequence of [name, grid], a grid a *)
(* sequence of rows of cell texts (dtype=str, fillna("")).  An operator    *)
(* that can raise returns [exc, ...] with exc TRUE for a raised exception. *)
(***************************************************************************)
File(state, sheets) == [state |-> state, sheets |-> sheets]

Sheet(name, grid) == [name |-> name, grid |-> grid]

\* open(path, "rb") and the workbook parse succeed
Readable(f) == f.state = "ok"

\* the outcome of a document access: exc for a raised exception, names for a
\* sheet listing, grid for a sheet read
Access(exc, names, grid) == [exc |-> exc, names |-> names, grid |-> grid]

AccessFailed == Access(TRUE, <<>>, <<>>)

SheetNames(sheets) == [i \in 1..Len(sheets) |-> sheets[i].name]

safe_read_excel_sheetnames(f) == IF Readable(f) THEN Access(FALSE, SheetNames(f.sheets), <<>>) ELSE AccessFailed

\* the grid of the first sheet of that name
RECURSIVE GridOf(_, _)
GridOf(sheets, sheet_name) ==
    IF sheets = <<>> THEN AccessFailed
    ELSE IF Head(sheets).name = sheet_name THEN Access(FALSE, <<>>, Head(sheets).grid)
    ELSE GridOf(Tail(sheets), sheet_name)

\* raises when the file is not a workbook or holds no sheet of that name
safe_read_excel(f, sheet_name) == IF Readable(f) THEN GridOf(f.sheets, sheet_name) ELSE AccessFailed

\* str(c).strip() of a column name; pandas names an empty header cell "Unnamed: <index>"
ColumnName(cell, i) == Strip(IF cell = "" THEN "Unnamed: " \o IntToDigits(i - 1) ELSE cell)

\* header=0: the first row names the columns, the other rows are the data
Columns(grid) == IF grid = <<>> THEN <<>> ELSE [i \in 1..Len(grid[1]) |-> ColumnName(grid[1][i], i)]

DataRows(grid) == IF grid = <<>> THEN <<>> ELSE Tail(grid)

\* re.search(r"stock|symbol|name", c, re.I)
MentionsStock(lc) == Contains(lc, "stock") \/ Contains(lc, "symbol") \/ Contains(lc, "name")

IsStockCol(c) == MentionsStock(Lower(c))

\* next((c for c in columns if ...), None): the index of the first match, 0 for None
RECURSIVE FirstStockCol(_, _)
FirstStockCol(cols, i) ==
    IF i > Len(cols) THEN 0
    ELSE IF IsStockCol(cols[i]) THEN i
    ELSE FirstStockCol(cols, i + 1)

StockCol(cols) == FirstStockCol(cols, 1)

\* df[name] is a single column only when one column bears the name
DuplicateCol(cols, i) == \E j \in 1..Len(cols) : j # i /\ cols[j] = cols[i]

\* r.get(col, ""): the cell under the first column of that name, "" when absent
RECURSIVE GetFrom(_, _, _, _)
GetFrom(cols, row, col, i) ==
    IF i > Len(cols) THEN ""
    ELSE IF cols[i] = col THEN row[i]
    ELSE GetFrom(cols, row, col, i + 1)

Get(cols, row, col) == GetFrom(cols, row, col, 1)

\* .str.upper().str.strip().apply(lambda x: re.sub(r'\W+', '', x))
Clean(s) == KeepChars(IsWordChar, Strip(Upper(s)))

\* the rows of df whose cleaned stock cell equals stock.upper(), in row order
RECURSIVE FilterRows(_, _, _)
FilterRows(rows, sc, stock_upper) ==
    IF rows = <<>> THEN <<>>
    ELSE (IF Clean(Head(rows)[sc]) = stock_upper THEN <<Head(rows)>> ELSE <<>>) \o FilterRows(Tail(rows), sc, stock_upper)

\* sheet = pick_latest_sheet(sheet_names); df = safe_read_excel(path, sheet_name=sheet)
ReadLatest(f, sheet_names) ==
    IF sheet_names.exc \/ sheet_names.names = <<>> THEN AccessFailed
    ELSE safe_read_excel(f, pick_latest_sheet(sheet_names.names, NoDate))

(***************************************************************************)
(* ExcelUtils.extract_historical_table.  The extractors are given the      *)
(* outcomes of their document accesses, in the order of the accesses.      *)
(***************************************************************************)
Raised == [exc |-> TRUE, rows |-> <<>>]

Returned(rows) == [exc |-> FALSE, rows |-> rows]

HistFields ==
    {"Stock", "Category", "Strike", "Prev_OI", "Latest_OI", "Call_OI_Difference", "Put_OI_Difference",
     "LTP", "Additional_Strike"}

NumericFields == {"Prev_OI", "Latest_OI", "Call_OI_Difference", "Put_OI_Difference"}

\* row[k] = format_number(to_number(row[k])) for the numeric fields,
\* row["Additional_Strike"] stripped
FieldText(col, text) ==
    IF col \in NumericFields THEN format_number(to_number(text))
    ELSE IF col = "Additional_Strike" THEN Strip(text)
    ELSE text

HistoricalRow(cols, r) == [col \in HistFields |-> FieldText(col, Get(cols, r, col))]

HistoricalRows(cols, data) == [i \in 1..Len(data) |-> HistoricalRow(cols, data[i])]

\* from the detection of the stock column on
HistoricalOf(cols, rows, stock_col, stock) ==
    IF stock_col = 0 THEN Returned(<<>>)
    ELSE IF DuplicateCol(cols, stock_col) THEN Raised
    ELSE Returned(HistoricalRows(cols, FilterRows(rows, stock_col, Upper(stock))))

HistoricalTable(cols, rows, stock) == HistoricalOf(cols, rows, StockCol(cols), stock)

\* the body of the try block
HistoricalBody(sheet_names, df, stock) ==
    IF sheet_names.exc \/ sheet_names.names = <<>> THEN Raised
    ELSE IF df.exc THEN Raised
    ELSE HistoricalTable(Columns(df.grid), DataRows(df.grid), stock)

\* mutant: the exception leaves the extractor
Propagate(body) == body

\* try: ... except Exception: return []
CatchAll(body) == IF body.exc THEN Returned(<<>>) ELSE body

extract_historical_table(sheet_names, df, stock) == CatchAll(HistoricalBody(sheet_names, df, stock))

(***************************************************************************)
(* ExcelUtils.extract_live_table                                           *)
(***************************************************************************)
SectionNames == <<"Call Support", "Put Support", "Call Resistance", "Put Resistance">>

StripAll(row) == [i \in 1..Len(row) |-> Strip(row[i])]

RECURSIVE NonEmpty(_)
NonEmpty(cells) ==
    IF cells = <<>> THEN <<>>
    ELSE (IF Head(cells) # "" THEN <<Head(cells)>> ELSE <<>>) \o NonEmpty(Tail(cells))

\* texts: each row flattened, its stripped non-empty cells joined by a space
FlatText(row) == Join(" ", NonEmpty(StripAll(row)))

Texts(raw) == [i \in 1..Len(raw) |-> FlatText(raw[i])]

\* line: the stripped cells of a row, empty ones included, joined by a space
LineText(row) == Join(" ", StripAll(row))

IsSep(c) == c \in {"_", "-"} \/ IsSpace(c)

\* OPT[_\-\s]*w found in the upper-cased text u
FindsMarker(u, w) ==
    \E i \in 1..(Len(u) - 2) :
        /\ SubSeq(u, i, i + 2) = "OPT"
        /\ \E j \in (i + 3)..(Len(u) + 1 - Len(w)) :
            /\ SubSeq(u, j, j + Len(w) - 1) = w
            /\ \A k \in (i + 3)..(j - 1) : IsSep(CharAt(u, k))

\* re.search(rf"OPT[_\-\s]*{stock_norm}", line, re.I)
MatchesBlockStart(line, stock_norm) == FindsMarker(Upper(line), Upper(stock_norm))

RECURSIVE FirstStart(_, _, _)
FirstStart(texts, stock_norm, i) ==
    IF i > Len(texts) THEN 0
    ELSE IF MatchesBlockStart(texts[i], stock_norm) THEN i
    ELSE FirstStart(texts, stock_norm, i + 1)

\* the index of the first matching line, 0 for None
_find_live_block_start(texts, stock_norm) == FirstStart(texts, stock_norm, 1)

\* OPT[_\-\s]?[A-Za-z0-9]+ at the start of the upper-cased text u
StartsMarker(u) ==
    /\ StartsWith(u, "OPT")
    /\ \/ (Len(u) >= 4 /\ IsAlnum(CharAt(u, 4)))
       \/ (Len(u) >= 5 /\ IsSep(CharAt(u, 4)) /\ IsAlnum(CharAt(u, 5)))

\* re.search(r'^\s*OPT[_\-\s]?[A-Za-z0-9]+', line, re.I)
MatchesBlockEnd(line) == StartsMarker(Upper(LStrip(line)))

RECURSIVE FirstEnd(_, _)
FirstEnd(texts, j) ==
    IF j > Len(texts) THEN Len(texts) + 1
    ELSE IF MatchesBlockEnd(texts[j]) THEN j
    ELSE FirstEnd(texts, j + 1)

\* next((j for j in range(start_idx + 1, len(texts)) if ...), len(texts))
BlockEnd(texts, start_idx) == FirstEnd(texts, start_idx + 1)

\* map[k] = v
Put(map, k, v) == [x \in (DOMAIN map) \cup {k} |-> IF x = k THEN v ELSE map[x]]

\* map.get(k, default)
MapGet(map, k, default) == IF k \in DOMAIN map THEN map[k] ELSE default

AddValue(raw_add) == IF Lower(raw_add) \in {"yes", "y", "1", "true"} THEN "Yes" ELSE raw_add

EmptyIndex == [call_map |-> <<>>, put_map |-> <<>>, all_strikes |-> {}, add_map |-> <<>>]

\* one iteration of  for _, r in df1.iterrows()
IndexRow(index, k, v, cat, raw_add) ==
    [call_map    |-> IF Contains(cat, "call") /\ v.kind = "num" THEN Put(index.call_map, k, v) ELSE index.call_map,
     put_map     |-> IF Contains(cat, "put") /\ v.kind = "num" THEN Put(index.put_map, k, v) ELSE index.put_map,
     all_strikes |-> index.all_strikes \cup {k},
     add_map     |-> IF raw_add # "" THEN Put(index.add_map, k, AddValue(raw_add)) ELSE index.add_map]

\* call_map, put_map, all_strikes, add_map after the rows of the stock, in row order
RECURSIVE HistIndex(_, _, _)
HistIndex(cols, rows, index) ==
    IF rows = <<>> THEN index
    ELSE HistIndex(cols, Tail(rows),
            IndexRow(index, strike_key(Get(cols, Head(rows), "Strike")), to_number(Get(cols, Head(rows), "Latest_OI")),
                     Lower(Get(cols, Head(rows), "Category")), Strip(Get(cols, Head(rows), "Additional_Strike"))))

\* if stock_col: ...
IndexOf(cols, rows, stock_col, stock) ==
    IF stock_col = 0 THEN [exc |-> FALSE, index |-> EmptyIndex]
    ELSE IF DuplicateCol(cols, stock_col) THEN [exc |-> TRUE, index |-> EmptyIndex]
    ELSE [exc |-> FALSE, index |-> HistIndex(cols, FilterRows(rows, stock_col, Upper(stock)), EmptyIndex)]

\* the historical part of the try block, after the read of df1
LiveIndex(grid, stock) == IndexOf(Columns(grid), DataRows(grid), StockCol(Columns(grid)), stock)

\* the live sheet: the first sheet dated today, else the first of the
\* greatest date, else the last
ChooseAmong(dated, live_sheet_names, today) ==
    LET hits == { i \in 1..Len(dated) : dated[i].d = today }
    IN  IF hits # {} THEN dated[CHOOSE i \in hits : \A j \in hits : i <= j].name
        ELSE IF dated # <<>> THEN MaxByDate(dated).name
        ELSE live_sheet_names[Len(live_sheet_names)]

ChooseLiveSheet(live_sheet_names, today) == ChooseAmong(Candidates(live_sheet_names), live_sheet_names, today)

\* chosen = ...; raw = safe_read_excel(live_path, sheet_name=chosen, header=None)
ReadChosen(f, live_sheet_names, today) ==
    IF live_sheet_names.exc \/ live_sheet_names.names = <<>> THEN AccessFailed
    ELSE safe_read_excel(f, ChooseLiveSheet(live_sheet_names.names, today))

\* sections: name -> row of the block, in the order of first insertion, a
\* later header of the same name overwriting the row
RECURSIVE PutSection(_, _, _)
PutSection(sections, name, i) ==
    IF sections = <<>> THEN <<[name |-> name, idx |-> i]>>
    ELSE IF Head(sections).name = name THEN <<[name |-> name, idx |-> i]>> \o Tail(sections)
    ELSE <<Head(sections)>> \o PutSection(Tail(sections), name, i)

\* the four tests of one row of the block, in the order of the source
RECURSIVE MarkSections(_, _, _, _)
MarkSections(tl, i, n, sections) ==
    IF n > 4 THEN sections
    ELSE MarkSections(tl, i, n + 1,
            IF Contains(tl, Lower(SectionNames[n])) THEN PutSection(sections, SectionNames[n], i) ELSE sections)

RECURSIVE FindSections(_, _, _)
FindSections(block, i, sections) ==
    IF i > Len(block) THEN sections
    ELSE FindSections(block, i + 1, MarkSections(Lower(LineText(block[i])), i, 1, sections))

MinCols == 10

\* any(h in " ".join(row_vals).lower() for h in (the four headers))
HasHeader(tl) == \E n \in 1..4 : Contains(tl, Lower(SectionNames[n]))

RECURSIVE ScanSection(_, _, _)
\* mutant: an all-empty row skipped, the scan going on below it
ScanRow_SkipEmpty(block, sec_name, r, row_vals) ==
    IF HasHeader(Lower(Join(" ", row_vals))) THEN <<>>
    ELSE IF (\A i \in 1..Len(row_vals) : row_vals[i] = "") \/ Len(row_vals) < MinCols THEN ScanSection(block, sec_name, r + 1)
    ELSE <<[sec |-> sec_name, r |-> r]>> \o ScanSection(block, sec_name, r + 1)

\* one row of the scan of a section: break, continue or append
ScanRow(block, sec_name, r, row_vals) ==
    IF \A i \in 1..Len(row_vals) : row_vals[i] = "" THEN <<>>
    ELSE IF HasHeader(Lower(Join(" ", row_vals))) THEN <<>>
    ELSE IF Len(row_vals) < MinCols THEN ScanSection(block, sec_name, r + 1)
    ELSE <<[sec |-> sec_name, r |-> r]>> \o ScanSection(block, sec_name, r + 1)

\* for r in range(sec_idx + 1, len(block)): the rows of the block that reach
\* result.append for the section, as [sec, r]
ScanSection(block, sec_name, r) ==
    IF r > Len(block) THEN <<>> ELSE ScanRow(block, sec_name, r, StripAll(block[r]))

RECURSIVE ScanSections(_, _)
\* mutant: the sections scanned last to first
ScanSections_LastFirst(block, sections) ==
    IF sections = <<>> THEN <<>>
    ELSE ScanSections(block, Tail(sections)) \o ScanSection(block, Head(sections).name, Head(sections).idx + 1)

ScanSections(block, sections) ==
    IF sections = <<>> THEN <<>>
    ELSE ScanSection(block, Head(sections).name, Head(sections).idx + 1) \o ScanSections(block, Tail(sections))

\* the rows that reach result.append, in the order of the appends
Emitted(block) == ScanSections(block, FindSections(block, 1, <<>>))

IsCallSection(sec_name) == Contains(Lower(sec_name), "call")

\* mutant: the fields of a put section taken from the call columns
Fields_CallColumns(sec_name, row_vals) == [label |-> row_vals[1], prev_oi |-> row_vals[2], strike |-> row_vals[3]]

\* the three positional fields of a qualifying row
Fields(sec_name, row_vals) ==
    IF IsCallSection(sec_name)
    THEN [label |-> row_vals[1], prev_oi |-> row_vals[2], strike |-> row_vals[3]]
    ELSE [label |-> row_vals[7], prev_oi |-> row_vals[8], strike |-> row_vals[9]]

\* mutant: the baseline looked up in the call map for every section
Base_CallMapOnly(index, sec_name, sk) == MapGet(index.call_map, sk, Num(0, 1))

\* base = call_map.get(sk, 0) if "call" in sec_name.lower() else put_map.get(sk, 0)
Base(index, sec_name, sk) ==
    IF IsCallSection(sec_name) THEN MapGet(index.call_map, sk, Num(0, 1)) ELSE MapGet(index.put_map, sk, Num(0, 1))

\* mutant: a previous open interest that does not parse counted as zero
OiDiff_NoneAsZero(index, sec_name, prev_num, sk) ==
    format_number(Sub(IF prev_num.kind = "num" THEN prev_num ELSE Num(0, 1), Base(index, sec_name, sk)))

OiDiff(index, sec_name, prev_num, sk) ==
    IF prev_num.kind = "num" THEN format_number(Sub(prev_num, Base(index, sec_name, sk))) ELSE ""

\* mutant: membership tested in the keys of the call map only
IsNewStrike_CallKeysOnly(index, sk) == IF sk \notin DOMAIN index.call_map THEN "Yes" ELSE ""

IsNewStrike(index, sk) == IF sk \notin index.all_strikes THEN "Yes" ELSE ""

\* the dict appended to result
Appended(index, stock, sec_name, f, prev_num, sk) ==
    [Section      |-> sec_name,
     Label        |-> f.label,
     Prev_OI      |-> format_number(prev_num),
     Strike       |-> f.strike,
     Stock        |-> stock,
     OI_Diff      |-> OiDiff(index, sec_name, prev_num, sk),
     Is_NewStrike |-> IsNewStrike(index, sk),
     Add_Strike   |-> MapGet(index.add_map, sk, "")]

RowOfFields(index, stock, sec_name, f) == Appended(index, stock, sec_name, f, to_number(f.prev_oi), strike_key(f.strike))

LiveRow(index, stock, sec_name, row_vals) == RowOfFields(index, stock, sec_name, Fields(sec_name, row_vals))

\* block = raw.iloc[start_idx:end_idx]: <<>> when there is no start
BlockFrom(raw, texts, start_idx) ==
    IF start_idx = 0 THEN <<>> ELSE SubSeq(raw, start_idx, BlockEnd(texts, start_idx) - 1)

BlockIn(raw, texts, stock) == BlockFrom(raw, texts, _find_live_block_start(texts, KeepChars(IsWordChar, Upper(stock))))

\* the block of the stock in the raw live grid
Block(raw, stock) == BlockIn(raw, Texts(raw), stock)

LiveRowsAt(index, stock, block, emitted) ==
    [i \in 1..Len(emitted) |-> LiveRow(index, stock, emitted[i].sec, StripAll(block[emitted[i].r]))]

LiveRows(index, stock, block) == LiveRowsAt(index, stock, block, Emitted(block))

\* from the read of the live sheet on
LiveTable(ix, live_sheet_names, raw, stock) ==
    IF ix.exc THEN Raised
    ELSE IF live_sheet_names.exc \/ live_sheet_names.names = <<>> THEN Raised
    ELSE IF raw.exc THEN Raised
    ELSE Returned(LiveRows(ix.index, stock, Block(raw.grid, stock)))

\* the body of the try block
LiveBody(sheet_names, df1, live_sheet_names, raw, stock) ==
    IF sheet_names.exc \/ sheet_names.names = <<>> THEN Raised
    ELSE IF df1.exc THEN Raised
    ELSE LiveTable(LiveIndex(df1.grid, stock), live_sheet_names, raw, stock)

extract_live_table(sheet_names, df1, live_sheet_names, raw, stock) ==
    CatchAll(LiveBody(sheet_names, df1, live_sheet_names, raw, stock))

\* the extractors applied to files that no writer touches during the call
HistoricalOfListing(f, sheet_names, stock) == extract_historical_table(sheet_names, ReadLatest(f, sheet_names), stock)

HistoricalOfFile(f, stock) == HistoricalOfListing(f, safe_read_excel_sheetnames(f), stock)

LiveOfListings(lf, hf, live_sheet_names, sheet_names, today, stock) ==
    extract_live_table(sheet_names, ReadLatest(hf, sheet_names), live_sheet_names, ReadChosen(lf, live_sheet_names, today), stock)

LiveOfFiles(lf, hf, today, stock) ==
    LiveOfListings(lf, hf, safe_read_excel_sheetnames(lf), safe_read_excel_sheetnames(hf), today, stock)

(***************************************************************************)
(* State                                                                   *)
(***************************************************************************)
VARIABLES
    hist_file,            \* LIVE_DATA_DIR / Historical.xlsx
    live_file,            \* LIVE_DATA_DIR / Live.xlsx
    today,                \* datetime.now().date()
    all_stocks,           \* DataProcessorService.all_stocks
    historical_data,      \* table historical_data, in id order
    live_data,            \* table live_data, in id order
    processing_metadata,  \* table processing_metadata, in id order
    db_up,                \* whether a store transaction commits or raises
    pc,                   \* where the call in progress stands
    args,                 \* the arguments of the call
    idx,                  \* process_all_stocks: position of the for loop in all_stocks
    hist,                 \* process_all_stocks: hist of the current stock
    live,                 \* process_all_stocks: live of the current stock
    seen,                 \* the files as the accesses of the current stock found them
    success,              \* process_all_stocks: success
    errors,               \* process_all_stocks: errors
    ret,                  \* the value the call returned
    last_process_count,   \* DataProcessorService.last_process_count
    attempts,             \* history: what each iteration of the loop did
    begun,                \* history: the files and tables as the pass found them
    upload,               \* upload_excel_files: position in the handler and the uploaded files
    refresh,              \* the pass run for refresh_data: its position and its locals
    bg,                   \* background_processor: is_running, task, the loop tasks, the stop() calls
    budget                \* history: environment events still allowed

vars == <<hist_file, live_file, today, all_stocks, historical_data, live_data, processing_metadata,
          db_up, pc, args, idx, hist, live, seen, success, errors, ret, last_process_count, attempts,
          begun, upload, refresh, bg, budget>>

docVars == <<hist_file, live_file, today>>

dbVars == <<historical_data, live_data, processing_metadata>>

passVars == <<idx, hist, live, seen, success, errors, last_process_count, attempts, begun>>

envVars == <<db_up, upload, refresh, bg, budget>>

(***************************************************************************)
(* Input documents                                                         *)
(***************************************************************************)
MaxHistRows == 2

HistHeader == <<"Stock", "Category", "Strike", "Prev_OI", "Latest_OI", "Call_OI_Difference",
                "Put_OI_Difference", "LTP", "Additional_Strike">>

HistRowOf(stock, category, strike, latest) == <<stock, category, strike, "11000", latest, "500", "", "2950", "">>

\* a workbook with an undated sheet and a dated one, the dated one holding the table
HistBook(rows) == <<Sheet("15.03.2025", <<HistHeader>> \o rows), Sheet("Notes", <<<<"Stock">>, <<"see 15.03.2025">>>>)>>

LiveCells(c1, c2, c3, c7, c8, c9) == <<c1, c2, c3, "", "", "", c7, c8, c9, "">>

MarkerRow(stock) == LiveCells("OPT_" \o stock, "", "", "", "", "")

EmptyRow == LiveCells("", "", "", "", "", "")

LiveHeaders ==
    { LiveCells("Call Resistance", "Prev OI", "Strike", "Put Resistance", "Prev OI", "Strike"),
      LiveCells("Call Support", "Prev OI", "Strike", "", "", ""),
      LiveCells("", "", "", "Put Support", "Prev OI", "Strike") }

LiveBook(grid) == <<Sheet("14.03.2025", <<MarkerRow("OLD")>>), Sheet("15.03.2025", grid)>>

Today == 20250315

ReliancePrevTexts == {"12000", "12,500", "(500)", "-"}

RelianceStrikeTexts == {"3000", "3,100", "ATM"}

RelianceHistRows ==
    { HistRowOf("RELIANCE", "Call Resistance", "3000", "12000"),
      HistRowOf("Reliance ", "Put Support", "3000", "12,500.5"),
      HistRowOf("RELIANCE", "CALL SUPPORT", "3100.", "n/a") }

RelianceHistBooks ==
    { HistBook(<<HistRowOf("TCS", "Call Resistance", "3500", "700")>> \o rows) :
        rows \in UNION { [1..n -> RelianceHistRows] : n \in 0..MaxHistRows } }

RelianceLiveGrid(header, cp, cs, pp, ps) ==
    <<MarkerRow("RELIANCE"), header, LiveCells("R1", cp, cs, "S1", pp, ps),
      MarkerRow("TCS"), header, LiveCells("R1", "700", "3500", "S1", "900", "3000")>>

RelianceLiveBooks ==
    { LiveBook(RelianceLiveGrid(header, cp, cs, pp, ps)) :
        header \in LiveHeaders, cp \in ReliancePrevTexts, cs \in RelianceStrikeTexts,
        pp \in {"12000", "n/a"}, ps \in {"3000", "3500"} }

(***************************************************************************)
(* The idle processor and store                                            *)
(***************************************************************************)
NoRet == [status |-> "", message |-> "", stocks_processed |-> 0, total_stocks |-> 0, errors |-> <<>>, rows |-> <<>>]

NoBegun ==
    [hist_state |-> "", live_state |-> "", historical_data |-> <<>>, live_data |-> <<>>,
     hist_file |-> File("missing", <<>>), live_file |-> File("missing", <<>>)]

NoBudget == [uploads |-> 0, db_events |-> 0]

NoSeen == [h |-> <<>>, l |-> <<>>]

NoUpload == [pc |-> "idle", historical_file |-> <<>>, live_file |-> <<>>]

\* no pass requested of refresh_data
NoRefresh ==
    [pc |-> "idle", idx |-> 0, hist |-> <<>>, live |-> <<>>, success |-> 0, errors |-> <<>>,
     last_process_count |-> 0, status |-> "", produced |-> <<>>]

\* BackgroundProcessor.__init__, and no call of start() or stop() yet
NoBg ==
    [is_running |-> FALSE, task |-> 0, loops |-> <<>>, stops |-> <<>>, starts |-> 0, iterations |-> 0,
     last |-> [op |-> "", was_running |-> FALSE, loops |-> 0, cancelled |-> {}]]

IdlePass ==
    /\ idx = 0
    /\ hist = <<>>
    /\ live = <<>>
    /\ seen = NoSeen
    /\ success = 0
    /\ errors = <<>>
    /\ last_process_count = 0
    /\ attempts = <<>>
    /\ begun = NoBegun

EmptyStore ==
    /\ historical_data = <<>>
    /\ live_data = <<>>
    /\ processing_metadata = <<>>

(***************************************************************************)
(* SpecLive: extract_live_table applied to a pair of documents             *)
(***************************************************************************)
InitLive ==
    /\ hist_file \in { File("ok", b) : b \in RelianceHistBooks }
    /\ live_file \in { File("ok", b) : b \in RelianceLiveBooks }
    /\ today = Today
    /\ all_stocks = <<>>
    /\ EmptyStore
    /\ db_up = TRUE
    /\ pc = "call"
    /\ args = [stock |-> "RELIANCE"]
    /\ ret = NoRet
    /\ IdlePass
    /\ upload = NoUpload
    /\ refresh = NoRefresh
    /\ bg = NoBg
    /\ budget = NoBudget

CallExtractLive ==
    /\ pc = "call"
    /\ pc' = "returned"
    /\ ret' = [NoRet EXCEPT !.rows = LiveOfFiles(live_file, hist_file, today, args.stock).rows]
    /\ UNCHANGED <<docVars, all_stocks, dbVars, args, passVars, envVars>>

NextLive == CallExtractLive

SpecLive == InitLive /\ [][NextLive]_vars

(***************************************************************************)
(* Properties of extract_live_table (SpecLive)                             *)
(***************************************************************************)
\* the table of the historical workbook and the rows of a stock in it
HistGrid == safe_read_excel(hist_file, pick_latest_sheet(safe_read_excel_sheetnames(hist_file).names, NoDate)).grid

HistRowsOf(stock) == FilterRows(DataRows(HistGrid), StockCol(Columns(HistGrid)), Upper(stock))

\* the index of the stock built from the historical workbook
IndexOfStock(stock) == LiveIndex(HistGrid, stock).index

\* the raw grid of the live workbook and the block of a stock in it
LiveGrid == safe_read_excel(live_file, ChooseLiveSheet(safe_read_excel_sheetnames(live_file).names, today)).grid

RowsOfSection(rows, name) == SelectSeq(rows, LAMBDA row : row.Section = name)

\* the row of the last header of a section in the block, 0 when it has none
HeaderRowOf(block, name) ==
    LET at == { i \in 1..Len(block) : Contains(Lower(LineText(block[i])), Lower(name)) }
    IN  IF at = {} THEN 0 ELSE CHOOSE i \in at : \A j \in at : j <= i

Stops(row) ==
    \/ \A i \in 1..Len(row) : Strip(row[i]) = ""
    \/ \E n \in 1..4 : Contains(Lower(LineText(row)), Lower(SectionNames[n]))

\* the data rows of a section: below its header, before the first row that
\* stops the scan, at least ten cells wide
DataRowsOf(block, name) ==
    LET h == HeaderRowOf(block, name)
    IN  { r \in (h + 1)..Len(block) : h > 0 /\ Len(block[r]) >= MinCols /\ \A q \in (h + 1)..r : ~Stops(block[q]) }

RECURSIVE Ascending(_)
Ascending(S) == IF S = {} THEN <<>> ELSE LET m == CHOOSE a \in S : \A b \in S : a <= b IN <<m>> \o Ascending(S \ {m})

\* C1: every returned LiveRow has Is_NewStrike "Yes" exactly when the key of
\* its strike text is not the key of the strike of any historical row of
\* the stock, and "" otherwise
C1_NewStrikeFlag ==
    pc = "returned" =>
        LET cols == Columns(HistGrid)
            rows == HistRowsOf(args.stock)
            keys == { strike_key(Get(cols, rows[i], "Strike")) : i \in 1..Len(rows) }
        IN  \A i \in 1..Len(ret.rows) :
                ret.rows[i].Is_NewStrike = (IF strike_key(ret.rows[i].Strike) \in keys THEN "" ELSE "Yes")

C1_Witness ==
    /\ pc = "returned"
    /\ HistRowsOf(args.stock) # <<>>
    /\ \E i, j \in 1..Len(ret.rows) : ret.rows[i].Is_NewStrike = "Yes" /\ ret.rows[j].Is_NewStrike = ""

\* C2: every data row of a section is returned, in sheet order; when its
\* previous open interest does not parse its OI_Diff is "", and an OI_Diff
\* other than "" is only on a row whose previous open interest parses
C2_DiffOnlyWhenParsed ==
    pc = "returned" =>
        LET block == Block(LiveGrid, args.stock)
        IN  \A n \in 1..4 :
                LET name == SectionNames[n]
                    data == Ascending(DataRowsOf(block, name))
                    out  == RowsOfSection(ret.rows, name)
                IN  /\ Len(out) = Len(data)
                    /\ \A k \in 1..Len(data) :
                        LET f == Fields(name, StripAll(block[data[k]]))
                        IN  /\ out[k].Label = f.label
                            /\ out[k].Strike = f.strike
                            /\ to_number(f.prev_oi) = None => out[k].OI_Diff = ""
                            /\ out[k].OI_Diff # "" => to_number(f.prev_oi) # None

C2_Witness ==
    /\ pc = "returned"
    /\ LET block == Block(LiveGrid, args.stock)
       IN  \E n \in 1..4 : \E r \in DataRowsOf(block, SectionNames[n]) :
              /\ to_number(Fields(SectionNames[n], StripAll(block[r])).prev_oi) = None
              /\ strike_key(Fields(SectionNames[n], StripAll(block[r])).strike) \in DOMAIN IndexOfStock(args.stock).call_map
              /\ \E i \in 1..Len(ret.rows) : ret.rows[i].Section = SectionNames[n] /\ ret.rows[i].OI_Diff = ""

\* C3: a returned row of a call section whose previous open interest is the
\* number the historical call map holds at its strike key has OI_Diff "0"
\* and Is_NewStrike ""
C3_ZeroDeltaIsZeroText ==
    pc = "returned" =>
        LET block    == Block(LiveGrid, args.stock)
            call_map == IndexOfStock(args.stock).call_map
        IN  \A n \in {1, 3} :
                LET name == SectionNames[n]
                    data == Ascending(DataRowsOf(block, name))
                    out  == RowsOfSection(ret.rows, name)
                IN  \A k \in 1..Len(data) :
                        LET f  == Fields(name, StripAll(block[data[k]]))
                            sk == strike_key(f.strike)
                        IN  (sk \in DOMAIN call_map /\ to_number(f.prev_oi) = call_map[sk])
                                => (k <= Len(out) /\ out[k].OI_Diff = "0" /\ out[k].Is_NewStrike = "")

(***************************************************************************)
(* SpecKey: strike_key applied to two strike texts                         *)
(***************************************************************************)
StrikeTexts == {"3000", "3,000", "3 000", "3000.0", "3000.00", " 3000 ", "3500", "30000", "3000.5", "ATM", "A T M", "atm", ""}

InitKey ==
    /\ hist_file = File("missing", <<>>)
    /\ live_file = File("missing", <<>>)
    /\ today = Today
    /\ all_stocks = <<>>
    /\ EmptyStore
    /\ db_up = TRUE
    /\ pc = "call"
    /\ args \in [a : StrikeTexts, b : StrikeTexts]
    /\ ret = NoRet
    /\ IdlePass
    /\ upload = NoUpload
    /\ refresh = NoRefresh
    /\ bg = NoBg
    /\ budget = NoBudget

CallStrikeKey ==
    /\ pc = "call"
    /\ pc' = "returned"
    /\ ret' = [NoRet EXCEPT !.rows = <<strike_key(args.a), strike_key(args.b)>>]
    /\ UNCHANGED <<docVars, all_stocks, dbVars, args, passVars, envVars>>

NextKey == CallStrikeKey

SpecKey == InitKey /\ [][NextKey]_vars

\* a strike text without a decimal part of zeros only ("3000.0" -> "3000")
DropZeroDecimals(s) ==
    LET dots == { i \in 1..Len(s) : CharAt(s, i) = "." }
        last == CHOOSE i \in dots : \A j \in dots : j <= i
    IN  IF dots # {} /\ last < Len(s) /\ \A k \in (last + 1)..Len(s) : CharAt(s, k) = "0"
        THEN SubSeq(s, 1, last - 1) ELSE s

\* two strike texts that differ only in whitespace, punctuation, thousands
\* separators or a ".0"-style decimal part
SameStrikeText(a, b) == KeepChars(IsAlnum, DropZeroDecimals(a)) = KeepChars(IsAlnum, DropZeroDecimals(b))

\* C4: two strike texts that differ only in non-digit formatting characters
\* or in a trailing ".0"-style decimal part have the same strike key
C4_KeyStableUnderFormatting ==
    (pc = "returned" /\ SameStrikeText(args.a, args.b)) => ret.rows[1] = ret.rows[2]

(***************************************************************************)
(* The store (DatabaseManager)                                             *)
(***************************************************************************)
HistoricalData(stock, data) ==
    [stock              |-> Upper(stock),
     category           |-> data.Category,
     strike             |-> data.Strike,
     prev_oi            |-> data.Prev_OI,
     latest_oi          |-> data.Latest_OI,
     call_oi_difference |-> data.Call_OI_Difference,
     put_oi_difference  |-> data.Put_OI_Difference,
     ltp                |-> data.LTP,
     additional_strike  |-> data.Additional_Strike]

LiveData(stock, data) ==
    [stock         |-> Upper(stock),
     section       |-> data.Section,
     label         |-> data.Label,
     prev_oi       |-> data.Prev_OI,
     strike        |-> data.Strike,
     oi_diff       |-> data.OI_Diff,
     is_new_strike |-> data.Is_NewStrike,
     add_strike    |-> data.Add_Strike]

\* the table after the commit of bulk_save_objects
bulk_insert_historical(table, stock, data_list) ==
    table \o [i \in 1..Len(data_list) |-> HistoricalData(stock, data_list[i])]

bulk_insert_live(table, stock, data_list) ==
    table \o [i \in 1..Len(data_list) |-> LiveData(stock, data_list[i])]

\* the table after the commit of session.add(metadata)
log_processing(table, process_type, stocks_processed, status, message) ==
    Append(table, [process_type |-> process_type, stocks_processed |-> stocks_processed,
                   status |-> status, message |-> message])

\* str(e) of the error a transaction raises when the store is unavailable
StoreError == "database is locked"

\* str(e) of the error a document access raises
AccessError == "document access failed"

(***************************************************************************)
(* DataProcessorService.process_all_stocks: the pieces of the pass         *)
(***************************************************************************)
\* settings.ALL_STOCKS, its first entries
ALL_STOCKS ==
    <<"ABB", "ABCAPITAL", "ADANIENSOL", "ADANIENT", "ADANIGREEN", "ADANIPORTS", "ALKEM", "AMBER",
      "AMBUJACEM", "ANGELONE", "APLAPOLLO", "APOLLOHOSP", "ASHOKLEY", "ASIANPAINT">>

Universe(n) == SubSeq(ALL_STOCKS, 1, n)

\* live_path.exists() / hist_path.exists()
Exists(f) == f.state # "missing"

MissingMessage == "Missing files. Expected: Historical.xlsx and Live.xlsx"

StatusMessage(n, total, errs) ==
    "Processed " \o IntToDigits(n) \o "/" \o IntToDigits(total) \o " stocks successfully"
        \o (IF errs # <<>> THEN ". " \o IntToDigits(Len(errs)) \o " errors occurred." ELSE "")

\* f"{stock}: {str(e)}"
ErrorMessage(stock, e) == stock \o ": " \o e

\* mutant: every stock counted
CountedAlways(h, l) == TRUE

\* if hist or live:
Counted(h, l) == h # <<>> \/ l # <<>>

ErrorCap == 10

\* mutant: the whole list of errors returned
AllErrors(errs) == errs

\* errors[:10]
FirstErrors(errs) == SubSeq(errs, 1, IF Len(errs) < ErrorCap THEN Len(errs) ELSE ErrorCap)

\* mutant: the loop left at the first error
LeaveLoop(i) == Len(all_stocks) + 1

\* the for loop goes on with the next stock, after the body or its except clause
NextStock(i) == i + 1

Last(s) == s[Len(s)]

\* the outcome of the i-th access, a failed one for an access not made
At(s, i) == IF i <= Len(s) THEN s[i] ELSE AccessFailed

\* the next document access of extract_historical_table, s the outcomes so far
HistoricalAccess(s) == IF s = <<>> THEN safe_read_excel_sheetnames(hist_file) ELSE ReadLatest(hist_file, s[1])

\* the accesses of extract_historical_table are over: both made, or one raised
HistoricalDone(s) == Len(s) = 2 \/ Last(s).exc

\* df1[stock_col] is not one column
TwoStockColumns(cols) == StockCol(cols) # 0 /\ DuplicateCol(cols, StockCol(cols))

\* the next document access of extract_live_table: hist_path twice, then live_path twice
LiveAccess(s) ==
    IF s = <<>> THEN safe_read_excel_sheetnames(hist_file)
    ELSE IF Len(s) = 1 THEN ReadLatest(hist_file, s[1])
    ELSE IF Len(s) = 2 THEN safe_read_excel_sheetnames(live_file)
    ELSE ReadChosen(live_file, s[3], today)

\* the accesses of extract_live_table are over: all made, or a step raised
LiveDone(s) == Len(s) = 4 \/ Last(s).exc \/ (Len(s) = 2 /\ TwoStockColumns(Columns(s[2].grid)))

\* the number of rows of the stock in the historical sheet as read; 0 when
\* the sheet was not read or has no identifying column
MatchedIn(cols, rows, stock) ==
    IF StockCol(cols) = 0 THEN 0 ELSE Len(FilterRows(rows, StockCol(cols), Upper(stock)))

\* the step of extract_historical_table that raised: 1 the sheet listing,
\* 2 the sheet read, 3 the detection of the stock column, 0 none
HistFailedAt(h) ==
    IF h[1].exc THEN 1
    ELSE IF At(h, 2).exc THEN 2
    ELSE IF TwoStockColumns(Columns(h[2].grid)) THEN 3
    ELSE 0

\* the step of extract_live_table that raised: 1, 2, 3 as above, 4 the
\* listing of the live sheets, 5 the read of the live sheet, 0 none
LiveFailedAt(l) ==
    IF l = <<>> THEN 0
    ELSE IF l[1].exc THEN 1
    ELSE IF At(l, 2).exc THEN 2
    ELSE IF TwoStockColumns(Columns(l[2].grid)) THEN 3
    ELSE IF At(l, 3).exc THEN 4
    ELSE IF At(l, 4).exc THEN 5
    ELSE 0

\* history: what the accesses of one iteration found
Findings(h, l, stock) ==
    [hist_failed_at |-> HistFailedAt(h),
     live_failed_at |-> LiveFailedAt(l),
     stock_col      |-> StockCol(Columns(At(h, 2).grid)),
     matched        |-> MatchedIn(Columns(At(h, 2).grid), DataRows(At(h, 2).grid), stock),
     block_start    |-> _find_live_block_start(Texts(At(l, 4).grid), KeepChars(IsWordChar, Upper(stock)))]

\* history: one iteration of the loop
Attempt(stock, h, l, sn, e, counted) ==
    [stock |-> stock, hist |-> h, live |-> l, found |-> Findings(sn.h, sn.l, stock), error |-> e, counted |-> counted]

Stock == all_stocks[idx]

AfterStock(i) == IF i > Len(all_stocks) THEN "finish" ELSE "extract_hist"

\* except Exception as e: errors.append(...), and on to the next stock
Except(e, h, l, sn) ==
    /\ errors' = Append(errors, ErrorMessage(Stock, e))
    /\ attempts' = Append(attempts, Attempt(Stock, h, l, sn, ErrorMessage(Stock, e), FALSE))
    /\ idx' = NextStock(idx)
    /\ pc' = AfterStock(NextStock(idx))
    /\ seen' = NoSeen
    /\ success' = success

(***************************************************************************)
(* process_all_stocks, step by step                                        *)
(***************************************************************************)
\* the existence check, the clearing of the tables, success = 0, errors = []
Begin ==
    /\ pc = "call"
    /\ begun' = [hist_state |-> hist_file.state, live_state |-> live_file.state,
                 historical_data |-> historical_data, live_data |-> live_data,
                 hist_file |-> hist_file, live_file |-> live_file]
    /\ IF ~Exists(live_file) \/ ~Exists(hist_file)
       THEN /\ IF db_up
               THEN /\ processing_metadata' = log_processing(processing_metadata, "full_process", 0, "error", MissingMessage)
                    /\ ret' = [NoRet EXCEPT !.status = "error", !.message = MissingMessage]
                    /\ pc' = "returned"
               ELSE /\ pc' = "raised"
                    /\ UNCHANGED <<processing_metadata, ret>>
            /\ UNCHANGED <<historical_data, live_data, idx, success, errors>>
       ELSE IF args.clear_existing /\ ~db_up
            THEN /\ pc' = "raised"
                 /\ UNCHANGED <<dbVars, ret, idx, success, errors>>
            ELSE /\ historical_data' = IF args.clear_existing THEN <<>> ELSE historical_data
                 /\ live_data' = IF args.clear_existing THEN <<>> ELSE live_data
                 /\ success' = 0
                 /\ errors' = <<>>
                 /\ idx' = 1
                 /\ pc' = AfterStock(1)
                 /\ UNCHANGED <<processing_metadata, ret>>
    /\ UNCHANGED <<docVars, all_stocks, args, hist, live, seen, last_process_count, attempts, envVars>>

\* hist = self.utils.extract_historical_table(hist_path, stock), one document access at a time
HistoricalReturns(r, sn) ==
    IF r.exc
    THEN Except(AccessError, <<>>, <<>>, sn) /\ UNCHANGED hist
    ELSE /\ hist' = r.rows
         /\ seen' = sn
         /\ pc' = "extract_live"
         /\ UNCHANGED <<errors, attempts, idx, success>>

HistoricalStep(s) ==
    IF ~HistoricalDone(s)
    THEN /\ seen' = [seen EXCEPT !.h = s]
         /\ UNCHANGED <<pc, hist, errors, attempts, idx, success>>
    ELSE HistoricalReturns(extract_historical_table(s[1], At(s, 2), Stock), [seen EXCEPT !.h = s])

ExtractHistorical ==
    /\ pc = "extract_hist"
    /\ HistoricalStep(Append(seen.h, HistoricalAccess(seen.h)))
    /\ UNCHANGED <<docVars, all_stocks, dbVars, args, live, ret, last_process_count, begun, envVars>>

\* live = self.utils.extract_live_table(live_path, hist_path, stock), one document access at a time
LiveReturns(r, sn) ==
    IF r.exc
    THEN Except(AccessError, hist, <<>>, sn) /\ UNCHANGED live
    ELSE /\ live' = r.rows
         /\ seen' = sn
         /\ pc' = "save_hist"
         /\ UNCHANGED <<errors, attempts, idx, success>>

LiveStep(s) ==
    IF ~LiveDone(s)
    THEN /\ seen' = [seen EXCEPT !.l = s]
         /\ UNCHANGED <<pc, live, errors, attempts, idx, success>>
    ELSE LiveReturns(extract_live_table(s[1], At(s, 2), At(s, 3), At(s, 4), Stock), [seen EXCEPT !.l = s])

ExtractLive ==
    /\ pc = "extract_live"
    /\ LiveStep(Append(seen.l, LiveAccess(seen.l)))
    /\ UNCHANGED <<docVars, all_stocks, dbVars, args, hist, ret, last_process_count, begun, envVars>>

\* if hist: db.bulk_insert_historical(stock, hist)
SaveHistorical ==
    /\ pc = "save_hist"
    /\ IF hist = <<>>
       THEN /\ pc' = "save_live"
            /\ UNCHANGED <<historical_data, errors, attempts, idx, seen, success>>
       ELSE IF db_up
            THEN /\ historical_data' = bulk_insert_historical(historical_data, Stock, hist)
                 /\ pc' = "save_live"
                 /\ UNCHANGED <<errors, attempts, idx, seen, success>>
            ELSE Except(StoreError, hist, live, seen) /\ UNCHANGED historical_data
    /\ UNCHANGED <<docVars, all_stocks, live_data, processing_metadata, args, hist, live, ret,
                   last_process_count, begun, envVars>>

\* if live: db.bulk_insert_live(stock, live); if hist or live: success += 1
SaveLive ==
    /\ pc = "save_live"
    /\ IF live # <<>> /\ ~db_up
       THEN Except(StoreError, hist, live, seen) /\ UNCHANGED live_data
       ELSE /\ live_data' = IF live # <<>> THEN bulk_insert_live(live_data, Stock, live) ELSE live_data
            /\ success' = IF Counted(hist, live) THEN success + 1 ELSE success
            /\ attempts' = Append(attempts, Attempt(Stock, hist, live, seen, "", Counted(hist, live)))
            /\ idx' = NextStock(idx)
            /\ pc' = AfterStock(NextStock(idx))
            /\ seen' = NoSeen
            /\ UNCHANGED errors
    /\ UNCHANGED <<docVars, all_stocks, historical_data, processing_metadata, args, hist, live, ret,
                   last_process_count, begun, envVars>>

\* last_process_count, log_processing and the returned result
Finish ==
    /\ pc = "finish"
    /\ last_process_count' = success
    /\ IF db_up
       THEN /\ processing_metadata' = log_processing(processing_metadata, "full_process", success, "success",
                                                     StatusMessage(success, Len(all_stocks), errors))
            /\ ret' = [NoRet EXCEPT !.status = "success", !.stocks_processed = success,
                                    !.total_stocks = Len(all_stocks), !.errors = FirstErrors(errors)]
            /\ pc' = "returned"
       ELSE /\ pc' = "raised"
            /\ UNCHANGED <<processing_metadata, ret>>
    /\ UNCHANGED <<docVars, all_stocks, historical_data, live_data, args, idx, hist, live, seen, success,
                   errors, attempts, begun, envVars>>

(***************************************************************************)
(* upload_excel_files: the file operations of the handler                  *)
(***************************************************************************)
Removed == File("missing", <<>>)

\* the file between open("wb") and the end of copyfileobj
Partial == File("partial", <<>>)

UploadSame == UNCHANGED <<today, all_stocks, dbVars, db_up, pc, args, passVars, ret, refresh, bg>>

\* if hist_path.exists(): os.remove(hist_path)
UploadRemoveHist(historical_file, live_upload) ==
    /\ upload.pc = "idle"
    /\ budget.uploads > 0
    /\ pc \notin {"returned", "raised"}
    /\ budget' = [budget EXCEPT !.uploads = @ - 1]
    /\ upload' = [pc |-> "remove_live", historical_file |-> historical_file, live_file |-> live_upload]
    /\ hist_file' = IF Exists(hist_file) THEN Removed ELSE hist_file
    /\ UNCHANGED live_file
    /\ UploadSame

\* if live_path.exists(): os.remove(live_path)
UploadRemoveLive ==
    /\ upload.pc = "remove_live"
    /\ upload' = [upload EXCEPT !.pc = "open_hist"]
    /\ live_file' = IF Exists(live_file) THEN Removed ELSE live_file
    /\ UNCHANGED <<hist_file, budget>>
    /\ UploadSame

\* with hist_path.open("wb") as buffer:
UploadOpenHist ==
    /\ upload.pc = "open_hist"
    /\ upload' = [upload EXCEPT !.pc = "write_hist"]
    /\ hist_file' = Partial
    /\ UNCHANGED <<live_file, budget>>
    /\ UploadSame

\* shutil.copyfileobj(historical_file.file, buffer), and the close of the buffer
UploadWriteHist ==
    /\ upload.pc = "write_hist"
    /\ upload' = [upload EXCEPT !.pc = "open_live"]
    /\ hist_file' = File("ok", upload.historical_file)
    /\ UNCHANGED <<live_file, budget>>
    /\ UploadSame

\* with live_path.open("wb") as buffer:
UploadOpenLive ==
    /\ upload.pc = "open_live"
    /\ upload' = [upload EXCEPT !.pc = "write_live"]
    /\ live_file' = Partial
    /\ UNCHANGED <<hist_file, budget>>
    /\ UploadSame

\* shutil.copyfileobj(live_file.file, buffer), and the close of the buffer
UploadWriteLive ==
    /\ upload.pc = "write_live"
    /\ upload' = [upload EXCEPT !.pc = "written"]
    /\ live_file' = File("ok", upload.live_file)
    /\ UNCHANGED <<hist_file, budget>>
    /\ UploadSame

(***************************************************************************)
(* The store becoming unavailable and available again                      *)
(***************************************************************************)
\* the store is consulted before a transaction only
BeforeTransaction == pc \in {"call", "save_hist", "save_live", "finish"}

DbDown ==
    /\ db_up
    /\ budget.db_events > 0
    /\ BeforeTransaction
    /\ db_up' = FALSE
    /\ budget' = [budget EXCEPT !.db_events = @ - 1]
    /\ UNCHANGED <<docVars, all_stocks, dbVars, pc, args, passVars, ret, upload, refresh, bg>>

DbUp ==
    /\ ~db_up
    /\ budget.db_events > 0
    /\ BeforeTransaction
    /\ db_up' = TRUE
    /\ budget' = [budget EXCEPT !.db_events = @ - 1]
    /\ UNCHANGED <<docVars, all_stocks, dbVars, pc, args, passVars, ret, upload, refresh, bg>>

(***************************************************************************)
(* The documents of a pass                                                 *)
(***************************************************************************)
\* one row for every stock of the universe but the second, two for the first
UniverseHistRows(n) ==
    <<HistRowOf("abb ", "Put Support", "5,100", "900")>>
        \o [i \in 1..(n - 1) |-> HistRowOf(IF i = 1 THEN ALL_STOCKS[1] ELSE ALL_STOCKS[i + 1], "Call Resistance", "5000", "1200")]

UniverseLiveGrid ==
    <<MarkerRow("ABB"),
      LiveCells("Call Resistance", "Prev OI", "Strike", "Put Resistance", "Prev OI", "Strike"),
      LiveCells("R1", "1500", "5000", "S1", "900", "5100"),
      MarkerRow("TCS"),
      LiveCells("Call Support", "Prev OI", "Strike", "", "", ""),
      LiveCells("S1", "700", "3500", "", "", "")>>

\* the historical workbook without a column that names the stock
NoStockColumnBook(rows) == <<Sheet("15.03.2025", <<[HistHeader EXCEPT ![1] = "Ticker"]>> \o rows)>>

\* the historical workbook with two columns that are named Stock once stripped
TwoStockColumnsBook(rows) == <<Sheet("15.03.2025", <<[HistHeader EXCEPT ![8] = "Stock "]>> \o rows)>>

UniverseHistBooks(n) ==
    { HistBook(UniverseHistRows(n)), NoStockColumnBook(UniverseHistRows(n)), TwoStockColumnsBook(UniverseHistRows(n)) }

\* the files of an upload request: a later day's pair
UploadedHist == <<Sheet("16.03.2025", <<HistHeader, HistRowOf("ABCAPITAL", "Put Resistance", "200", "50")>>)>>

UploadedLive == <<Sheet("16.03.2025", <<MarkerRow("ABCAPITAL"), LiveCells("", "", "", "Put Support", "Prev OI", "Strike"),
                                        LiveCells("", "", "", "S1", "60", "200")>>)>>

\* the tables as an earlier pass left them
StoredHistorical == bulk_insert_historical(<<>>, "ABB", HistoricalOfFile(File("ok", HistBook(UniverseHistRows(1))), "ABB").rows)

StoredLive ==
    bulk_insert_live(<<>>, "ABB", LiveOfFiles(File("ok", LiveBook(UniverseLiveGrid)), File("ok", HistBook(UniverseHistRows(1))), Today, "ABB").rows)

(***************************************************************************)
(* SpecBatch: a pass while an upload replaces the documents                *)
(***************************************************************************)
NBatchStocks == 3

MaxUploads == 1

InitPass(n) ==
    /\ hist_file \in { File("ok", b) : b \in UniverseHistBooks(n) }
    /\ live_file = File("ok", LiveBook(UniverseLiveGrid))
    /\ today = Today
    /\ all_stocks = Universe(n)
    /\ \/ EmptyStore
       \/ historical_data = StoredHistorical /\ live_data = StoredLive /\ processing_metadata = <<>>
    /\ db_up = TRUE
    /\ pc = "call"
    /\ args \in [clear_existing : BOOLEAN]
    /\ ret = NoRet
    /\ IdlePass
    /\ upload = NoUpload
    /\ refresh = NoRefresh
    /\ bg = NoBg

InitBatch ==
    /\ InitPass(NBatchStocks)
    /\ budget = [uploads |-> MaxUploads, db_events |-> 0]

NextBatch ==
    \/ Begin
    \/ ExtractHistorical
    \/ ExtractLive
    \/ SaveHistorical
    \/ SaveLive
    \/ Finish
    \/ UploadRemoveHist(UploadedHist, UploadedLive)
    \/ UploadRemoveLive
    \/ UploadOpenHist
    \/ UploadWriteHist
    \/ UploadOpenLive
    \/ UploadWriteLive

SpecBatch == InitBatch /\ [][NextBatch]_vars

(***************************************************************************)
(* SpecStore: a pass while the store goes down and comes back              *)
(***************************************************************************)
NStoreStocks == 13

MaxDbEvents == 2

InitStore ==
    /\ InitPass(NStoreStocks)
    /\ budget = [uploads |-> 0, db_events |-> MaxDbEvents]

NextStore ==
    \/ Begin
    \/ ExtractHistorical
    \/ ExtractLive
    \/ SaveHistorical
    \/ SaveLive
    \/ Finish
    \/ DbDown
    \/ DbUp

SpecStore == InitStore /\ [][NextStore]_vars

(***************************************************************************)
(* Properties of a pass                                                    *)
(***************************************************************************)
Completed == pc = "returned" /\ ret.status = "success"

InLoop == pc \in {"extract_hist", "extract_live", "save_hist", "save_live"}

AttemptStocks == [i \in 1..Len(attempts) |-> attempts[i].stock]

\* the messages of the attempts that failed, in the order of the attempts
RECURSIVE ErrorsOf(_)
ErrorsOf(as) ==
    IF as = <<>> THEN <<>>
    ELSE (IF Head(as).error # "" THEN <<Head(as).error>> ELSE <<>>) \o ErrorsOf(Tail(as))

HasRows(a) == a.hist # <<>> \/ a.live # <<>>

ExtractionFailed(a) == a.found.hist_failed_at # 0 \/ a.found.live_failed_at # 0

\* the documents as read hold nothing for the stock: no identifying column
\* or no matching row, and no block start marker
NoData(a) == ~ExtractionFailed(a) /\ a.found.matched = 0 /\ a.found.block_start = 0

C6_OneFailureOneMessage ==
    Completed =>
        LET failed == { i \in 1..Len(attempts) : ExtractionFailed(attempts[i]) }
        IN  Cardinality(failed) = 1 =>
                /\ Len(ret.errors) = 1
                /\ \A i \in failed : StartsWith(ret.errors[1], attempts[i].stock \o ": ")
                /\ ret.stocks_processed = Cardinality({ i \in 1..Len(attempts) : i \notin failed /\ HasRows(attempts[i]) })

\* C7: a completed pass returns stocks_processed equal to the number of
\* stocks with a non-empty historical or live row-set, total_stocks equal to
\* the size of the universe, and as errors the first 10 messages recorded
C7_ResultCounts ==
    Completed =>
        /\ ret.stocks_processed = Cardinality({ i \in 1..Len(attempts) : HasRows(attempts[i]) })
        /\ ret.total_stocks = Len(all_stocks)
        /\ ret.errors = SubSeq(ErrorsOf(attempts), 1, IF Len(errors) < 10 THEN Len(errors) ELSE 10)
        /\ ret.stocks_processed <= ret.total_stocks
        /\ Len(ret.errors) <= 10

\* C7 (amended): a completed pass returns stocks_processed equal to the
\* number of stocks with a non-empty historical or live row-set whose
\* processing raised no error, total_stocks equal to the size of the
\* universe, and as errors the first 10 messages recorded
C7_ResultCountsStored ==
    Completed =>
        /\ ret.stocks_processed = Cardinality({ i \in 1..Len(attempts) : HasRows(attempts[i]) /\ attempts[i].error = "" })
        /\ ret.total_stocks = Len(all_stocks)
        /\ ret.errors = SubSeq(ErrorsOf(attempts), 1, IF Len(errors) < 10 THEN Len(errors) ELSE 10)
        /\ ret.stocks_processed <= ret.total_stocks
        /\ Len(ret.errors) <= 10

C7_Witness == Completed /\ Len(errors) > 10 /\ Len(ret.errors) = 10 /\ ret.stocks_processed > 0

\* C8: a pass that finds a document missing or unreadable returns an error
\* result, attempts no stock and leaves the stored rows as they were
C8_MissingOrUnreadableIsFatal ==
    (begun.hist_state \in {"missing", "partial"} \/ begun.live_state \in {"missing", "partial"}) =>
        /\ pc = "returned"
        /\ ret.status = "error"
        /\ idx = 0
        /\ attempts = <<>>
        /\ historical_data = begun.historical_data
        /\ live_data = begun.live_data

\* C9: no exception leaves an extractor: no attempt of a pass records an
\* error of an extraction, and an extraction one of whose steps raised
\* hands the pass an empty row-set
C9_ExtractorsNeverRaise ==
    /\ errors = <<>>
    /\ \A i \in 1..Len(attempts) :
          /\ attempts[i].error = ""
          /\ attempts[i].found.hist_failed_at # 0 => attempts[i].hist = <<>>
          /\ attempts[i].found.live_failed_at # 0 => attempts[i].live = <<>>

C9_Witness ==
    /\ Completed
    /\ \E i, j, k \in 1..Len(attempts) :
          /\ attempts[i].found.hist_failed_at = 2
          /\ attempts[j].found.live_failed_at # 0
          /\ ~ExtractionFailed(attempts[k]) /\ attempts[k].counted

\* C10: a stock for which the documents hold nothing gets two empty
\* row-sets, no error message, and is not counted as processed
C10_NoDataIsNoError ==
    /\ \A i \in 1..Len(attempts) :
          NoData(attempts[i]) =>
              /\ attempts[i].hist = <<>>
              /\ attempts[i].live = <<>>
              /\ attempts[i].error = ""
              /\ ~attempts[i].counted
    /\ Completed =>
          /\ ret.stocks_processed = Cardinality({ i \in 1..Len(attempts) : attempts[i].counted })
          /\ \A i \in 1..Len(attempts) : \A m \in 1..Len(ret.errors) :
                NoData(attempts[i]) => ~StartsWith(ret.errors[m], attempts[i].stock \o ": ")

C10_Witness ==
    /\ Completed
    /\ \E i, j \in 1..Len(attempts) :
          /\ NoData(attempts[i]) /\ attempts[i].found.stock_col # 0
          /\ NoData(attempts[j]) /\ attempts[j].found.stock_col = 0

(***************************************************************************)
(* extract_historical_table called on one workbook for one symbol          *)
(***************************************************************************)
\* the texts of the stock cell of a sheet row
SymbolCells == {"RELIANCE", "reliance", " Reliance ", "REL-IANCE", "M&M", "TCS"}

\* the symbols asked for
Symbols == {"RELIANCE", "reliance", "Reliance ", "M&M", "TCS"}

SymbolHistRows == { HistRowOf(cell, "Call Resistance", "3000", "12000") : cell \in SymbolCells }

SymbolHistBooks == { HistBook(rows) : rows \in UNION { [1..n -> SymbolHistRows] : n \in 0..MaxHistRows } }

InitHist ==
    /\ hist_file \in { File("ok", b) : b \in SymbolHistBooks }
    /\ live_file = File("missing", <<>>)
    /\ today = Today
    /\ all_stocks = <<>>
    /\ EmptyStore
    /\ db_up = TRUE
    /\ pc = "call"
    /\ args \in [stock : Symbols]
    /\ ret = NoRet
    /\ IdlePass
    /\ upload = NoUpload
    /\ refresh = NoRefresh
    /\ bg = NoBg
    /\ budget = NoBudget

CallExtractHistorical ==
    /\ pc = "call"
    /\ pc' = "returned"
    /\ ret' = [NoRet EXCEPT !.rows = HistoricalOfFile(hist_file, args.stock).rows]
    /\ UNCHANGED <<docVars, all_stocks, dbVars, args, passVars, envVars>>

NextHist == CallExtractHistorical

SpecHist == InitHist /\ [][NextHist]_vars

\* the sheet rows whose stock cell, cleaned, is the cleaned symbol
RECURSIVE RowsOfSymbol(_, _, _)
RowsOfSymbol(rows, sc, symbol) ==
    IF rows = <<>> THEN <<>>
    ELSE (IF Clean(Head(rows)[sc]) = Clean(symbol) THEN <<Head(rows)>> ELSE <<>>)
         \o RowsOfSymbol(Tail(rows), sc, symbol)

\* C11: extract_historical_table returns one HistoricalRow for each sheet
\* row whose stock cell, cleaned, equals the cleaned input symbol, in the
\* row order of the sheet
C11_OneRowPerMatchingSheetRow ==
    pc = "returned" =>
        ret.rows = HistoricalRows(Columns(HistGrid),
                                  RowsOfSymbol(DataRows(HistGrid), StockCol(Columns(HistGrid)), args.stock))

\* the map of the side of a section: the call map for the two call sections,
\* the put map for the two put sections
SideMap(index, n) == IF SectionNames[n] \in {"Call Support", "Call Resistance"} THEN index.call_map ELSE index.put_map

\* C12: a returned row whose previous open interest parses has as OI_Diff
\* the formatted difference of that number and the value the map of its
\* section's side (call map for a call section, put map for a put section)
\* holds at its strike key, 0 when the key is not in that map
C12_BaselineOfOwnSide ==
    pc = "returned" =>
        LET block == Block(LiveGrid, args.stock)
        IN  \A n \in 1..4 :
                LET name == SectionNames[n]
                    data == Ascending(DataRowsOf(block, name))
                    out  == RowsOfSection(ret.rows, name)
                    side == SideMap(IndexOfStock(args.stock), n)
                IN  /\ Len(out) = Len(data)
                    /\ \A k \in 1..Len(data) :
                        LET f    == Fields(name, StripAll(block[data[k]]))
                            prev == to_number(f.prev_oi)
                            sk   == strike_key(f.strike)
                            base == IF sk \in DOMAIN side THEN side[sk] ELSE Num(0, 1)
                        IN  prev # None => out[k].OI_Diff = format_number(Sub(prev, base))

\* a put section row and a call section row at a strike key that both maps
\* hold with different values, and a call section row at a key of no map
C12_Witness ==
    /\ pc = "returned"
    /\ LET block == Block(LiveGrid, args.stock)
           ix    == IndexOfStock(args.stock)
       IN  /\ \E n \in {2, 4} : \E r \in DataRowsOf(block, SectionNames[n]) :
                LET f == Fields(SectionNames[n], StripAll(block[r]))
                IN  /\ to_number(f.prev_oi) # None
                    /\ strike_key(f.strike) \in DOMAIN ix.put_map
                    /\ strike_key(f.strike) \in DOMAIN ix.call_map
                    /\ ix.put_map[strike_key(f.strike)] # ix.call_map[strike_key(f.strike)]
                    /\ \E i \in 1..Len(ret.rows) :
                          /\ ret.rows[i].Section = SectionNames[n]
                          /\ ret.rows[i].OI_Diff = format_number(Sub(to_number(f.prev_oi), ix.put_map[strike_key(f.strike)]))
                          /\ ret.rows[i].OI_Diff # format_number(Sub(to_number(f.prev_oi), ix.call_map[strike_key(f.strike)]))
           /\ \E n \in {1, 3} : \E r \in DataRowsOf(block, SectionNames[n]) :
                LET f == Fields(SectionNames[n], StripAll(block[r]))
                IN  /\ to_number(f.prev_oi) # None
                    /\ strike_key(f.strike) \notin DOMAIN ix.call_map

(***************************************************************************)
(* format_number and to_number called on one value                         *)
(***************************************************************************)
MaxNumber == 40

NumberTexts ==
    {"", "0", "1000", "1,000", "(1000)", "1,234.5", "(1234)", " 42 ", "-5", "1.2.3", "()", "(",
     "abc", "12a3", "$1,000.50", "n/a", ".", "( 7 )", "1000.6"}

\* None, texts, integers and numbers with a fractional part
NumberInputs ==
    {None} \cup { Txt(t) : t \in NumberTexts }
           \cup { Num(n, 1) : n \in (0..MaxNumber) \cup {999, 1000, 1001, 12345, 999999, 1000000, 1234567} }
           \cup { Num(0 - 1000, 1), Num(4, 10), Num(5, 10), Num(15, 10), Num(12345, 10), Num(0 - 4, 10) }

IsNat(x) == x.kind = "num" /\ x.d = 1 /\ x.n >= 0

InitNum ==
    /\ hist_file = File("missing", <<>>)
    /\ live_file = File("missing", <<>>)
    /\ today = Today
    /\ all_stocks = <<>>
    /\ EmptyStore
    /\ db_up = TRUE
    /\ pc = "call"
    /\ args \in [x : NumberInputs]
    /\ ret = NoRet
    /\ IdlePass
    /\ upload = NoUpload
    /\ refresh = NoRefresh
    /\ bg = NoBg
    /\ budget = NoBudget

CallFormatNumber ==
    /\ pc = "call"
    /\ pc' = "formatted"
    /\ ret' = [NoRet EXCEPT !.rows = <<format_number(args.x)>>]
    /\ UNCHANGED <<docVars, all_stocks, dbVars, args, passVars, envVars>>

\* to_number of None or of a text (not s holds for None as for "")
CallToNumber ==
    /\ pc = "call"
    /\ args.x.kind \in {"none", "text"}
    /\ pc' = "to_number"
    /\ ret' = [NoRet EXCEPT !.rows = <<to_number(args.x.t)>>]
    /\ UNCHANGED <<docVars, all_stocks, dbVars, args, passVars, envVars>>

\* to_number(format_number(n)) of an integer n >= 0
CallRoundTrip ==
    /\ pc = "call"
    /\ IsNat(args.x)
    /\ pc' = "round_trip"
    /\ ret' = [NoRet EXCEPT !.rows = <<to_number(format_number(args.x))>>]
    /\ UNCHANGED <<docVars, all_stocks, dbVars, args, passVars, envVars>>

NextNum == CallFormatNumber \/ CallToNumber \/ CallRoundTrip

SpecNum == InitNum /\ [][NextNum]_vars

\* C13: for every integer n >= 0, to_number(format_number(n)) is n
C13_RoundTrip == pc = "round_trip" => ret.rows[1] = args.x

\* the number a value converts to under float(), None when it does not
Converted(x) == IF x.kind = "num" THEN x ELSE IF x.kind = "text" THEN PyFloat(x.t) ELSE None

\* C14: format_number returns "" only for None and for the empty text; for
\* any other input that converts to a number it returns the number rounded
\* to an integer with its digits grouped by commas, and for a text that
\* does not convert it returns the text unchanged
C14_FormatNumber ==
    pc = "formatted" =>
        /\ ret.rows[1] = "" <=> (args.x = None \/ args.x = Txt(""))
        /\ (args.x # None /\ args.x # Txt("") /\ Converted(args.x) # None) => ret.rows[1] = FormatF0(Converted(args.x))
        /\ (args.x.kind = "text" /\ Converted(args.x) = None) => ret.rows[1] = args.x.t
        /\ args.x = Num(1000, 1) => ret.rows[1] = "1,000"
        /\ args.x = Num(1000000, 1) => ret.rows[1] = "1,000,000"

\* C15: to_number of None or "" is None; of any other text it is the number
\* read from the digits and points of the trimmed text, negated when the
\* trimmed text is wholly parenthesized, and None when what is left of the
\* text is empty or does not parse
C15_ToNumber ==
    pc = "to_number" =>
        LET t     == Strip(args.x.t)
            neg   == StartsWith(t, "(") /\ EndsWith(t, ")")
            inner == IF neg THEN SubSeq(t, 2, Len(t) - 1) ELSE t
            clean == KeepChars(IsDigitOrDot, inner)
            value == UnsignedFloat(clean)
        IN  /\ ret.rows[1] = IF args.x.kind = "none" \/ args.x.t = "" THEN None
                             ELSE IF clean = "" \/ value = None THEN None
                             ELSE IF neg THEN Num(0 - value.n, value.d) ELSE value
            /\ args.x = Txt("1,000") => ret.rows[1] = Num(1000, 1)
            /\ args.x = Txt("(1000)") => ret.rows[1] = Num(0 - 1000, 1)
            /\ args.x = Txt("(1234)") => ret.rows[1] = Num(0 - 1234, 1)
            /\ args.x = Txt("1,234.5") => ret.rows[1] = Num(12345, 10)
            /\ args.x = Txt("1.2.3") => ret.rows[1] = None

C15_Witness == pc = "to_number" /\ args.x = Txt("(1000)") /\ ret.rows[1] = Num(0 - 1000, 1)

\* the key the description of strike_key gives a text
DescribedKey(s) ==
    IF s = "" THEN [int |-> FALSE, n |-> 0, s |-> ""]
    ELSE IF KeepChars(IsDigit, s) # "" THEN [int |-> TRUE, n |-> DigitsToInt(KeepChars(IsDigit, s)), s |-> ""]
    ELSE [int |-> FALSE, n |-> 0, s |-> Upper(s)]

MaxSheets == 3

SheetNameTexts ==
    {"01.01.2025", "15.03.2025", "15-03-2025", "16.03.2025", "2025-03-15", "15 Mar 2025", "31.02.2025", "NotesSheet"}

TargetDates == {NoDate, 20250315, 20250101, 20240101}

InitSheet ==
    /\ hist_file = File("missing", <<>>)
    /\ live_file = File("missing", <<>>)
    /\ today = Today
    /\ all_stocks = <<>>
    /\ EmptyStore
    /\ db_up = TRUE
    /\ pc = "call"
    /\ args \in [sheet_names : UNION { [1..n -> SheetNameTexts] : n \in 1..MaxSheets }, target_date : TargetDates]
    /\ ret = NoRet
    /\ IdlePass
    /\ upload = NoUpload
    /\ refresh = NoRefresh
    /\ bg = NoBg
    /\ budget = NoBudget

CallPickLatestSheet ==
    /\ pc = "call"
    /\ pc' = "returned"
    /\ ret' = [NoRet EXCEPT !.rows = <<pick_latest_sheet(args.sheet_names, args.target_date)>>]
    /\ UNCHANGED <<docVars, all_stocks, dbVars, args, passVars, envVars>>

NextSheet == CallPickLatestSheet

SpecSheet == InitSheet /\ [][NextSheet]_vars

\* the positions of the names that parse as a date, and the date of a name
ParsedAt(names) == { i \in 1..Len(names) : try_parse_date(names[i]) # NoDate }

DateAt(names, i) == try_parse_date(names[i])

\* name is a name of the greatest date among those that parse, or the last
\* name when none parses
IsLatest(names, name) ==
    IF ParsedAt(names) = {} THEN name = names[Len(names)]
    ELSE \E i \in ParsedAt(names) :
            /\ name = names[i]
            /\ \A j \in ParsedAt(names) : DateAt(names, j) <= DateAt(names, i)

\* C17: without a target date pick_latest_sheet returns the name of the
\* greatest date among the names that parse as a date, and the last name
\* when no name parses
C17_LatestSheet ==
    (pc = "returned" /\ args.target_date = NoDate) =>
        /\ IsLatest(args.sheet_names, ret.rows[1])
        /\ args.sheet_names = <<"01.01.2025", "15.03.2025", "NotesSheet">> => ret.rows[1] = "15.03.2025"
        /\ args.sheet_names = <<"15.03.2025", "NotesSheet">> => ret.rows[1] = "15.03.2025"
        /\ args.sheet_names = <<"31.02.2025", "NotesSheet", "NotesSheet">> => ret.rows[1] = "NotesSheet"

C17_Witness ==
    /\ pc = "returned"
    /\ args.target_date = NoDate
    /\ args.sheet_names = <<"01.01.2025", "15.03.2025", "NotesSheet">>
    /\ ret.rows[1] = "15.03.2025"

\* the positions of the names whose date is the target date
MatchesAt(names, target) == { i \in ParsedAt(names) : DateAt(names, i) = target }

\* C18: with a target date pick_latest_sheet returns a name of that date
\* only when exactly one name has that date, and otherwise the name of the
\* greatest date
C18_TargetOnlyWhenUnique ==
    (pc = "returned" /\ args.target_date # NoDate) =>
        IF Cardinality(MatchesAt(args.sheet_names, args.target_date)) = 1
        THEN \A i \in MatchesAt(args.sheet_names, args.target_date) : ret.rows[1] = args.sheet_names[i]
        ELSE IsLatest(args.sheet_names, ret.rows[1])

\* C18 (amended): with a target date pick_latest_sheet returns the first
\* name, in input order, whose date is the target date when there is one,
\* and otherwise the name of the greatest date (the last name when no name
\* parses)
C18_FirstOfTargetDate ==
    (pc = "returned" /\ args.target_date # NoDate) =>
        LET matches == MatchesAt(args.sheet_names, args.target_date)
        IN  IF matches # {}
            THEN \E i \in matches : ret.rows[1] = args.sheet_names[i] /\ \A j \in matches : i <= j
            ELSE IsLatest(args.sheet_names, ret.rows[1])

C18_Witness ==
    /\ pc = "returned"
    /\ args.target_date = 20250315
    /\ args.sheet_names = <<"16.03.2025", "15-03-2025", "15.03.2025">>
    /\ ret.rows[1] = "15-03-2025"

(***************************************************************************)
(* refresh_data: process_all_stocks run as a background task, on a worker  *)
(* thread, next to the pass of another caller.  The pass is the code of    *)
(* process_all_stocks again, with clear_existing left at its default True; *)
(* its steps are its store transactions, and the extraction of a stock is  *)
(* one step (no upload runs beside it in SpecRace).                        *)
(***************************************************************************)
RefreshStock == all_stocks[refresh.idx]

RefreshAfter(i) == IF i > Len(all_stocks) THEN "finish" ELSE "extract"

\* background_tasks.add_task(data_processor.process_all_stocks)
RefreshData ==
    /\ refresh.pc = "idle"
    /\ refresh' = [refresh EXCEPT !.pc = "call"]
    /\ UNCHANGED <<docVars, all_stocks, dbVars, db_up, pc, args, passVars, ret, upload, bg, budget>>

\* the existence check, db.clear_stock_data(), success = 0, errors = []
RefreshBegin ==
    /\ refresh.pc = "call"
    /\ IF ~Exists(live_file) \/ ~Exists(hist_file)
       THEN /\ processing_metadata' =
                  IF db_up THEN log_processing(processing_metadata, "full_process", 0, "error", MissingMessage)
                  ELSE processing_metadata
            /\ refresh' = [refresh EXCEPT !.pc = IF db_up THEN "returned" ELSE "raised", !.status = IF db_up THEN "error" ELSE ""]
            /\ UNCHANGED <<historical_data, live_data>>
       ELSE IF ~db_up
            THEN /\ refresh' = [refresh EXCEPT !.pc = "raised"]
                 /\ UNCHANGED dbVars
            ELSE /\ historical_data' = <<>>
                 /\ live_data' = <<>>
                 /\ refresh' = [refresh EXCEPT !.pc = RefreshAfter(1), !.idx = 1, !.success = 0, !.errors = <<>>]
                 /\ UNCHANGED processing_metadata
    /\ UNCHANGED <<docVars, all_stocks, db_up, pc, args, passVars, ret, upload, bg, budget>>

\* hist = extract_historical_table(...); live = extract_live_table(...)
RefreshExtract ==
    /\ refresh.pc = "extract"
    /\ refresh' = [refresh EXCEPT !.pc = "save_hist",
                                  !.hist = HistoricalOfFile(hist_file, RefreshStock).rows,
                                  !.live = LiveOfFiles(live_file, hist_file, today, RefreshStock).rows]
    /\ UNCHANGED <<docVars, all_stocks, dbVars, db_up, pc, args, passVars, ret, upload, bg, budget>>

\* except Exception as e: errors.append(f"{stock}: {str(e)}")
RefreshExcept(e) ==
    [refresh EXCEPT !.errors = Append(@, ErrorMessage(RefreshStock, e)),
                    !.produced = Append(@, [stock |-> RefreshStock, hist |-> refresh.hist, live |-> refresh.live, error |-> e]),
                    !.idx = @ + 1,
                    !.pc = RefreshAfter(refresh.idx + 1)]

\* if hist: db.bulk_insert_historical(stock, hist)
RefreshSaveHistorical ==
    /\ refresh.pc = "save_hist"
    /\ IF refresh.hist # <<>> /\ ~db_up
       THEN refresh' = RefreshExcept(StoreError) /\ UNCHANGED historical_data
       ELSE /\ historical_data' = IF refresh.hist # <<>>
                                  THEN bulk_insert_historical(historical_data, RefreshStock, refresh.hist)
                                  ELSE historical_data
            /\ refresh' = [refresh EXCEPT !.pc = "save_live"]
    /\ UNCHANGED <<docVars, all_stocks, live_data, processing_metadata, db_up, pc, args, passVars, ret, upload, bg, budget>>

\* if live: db.bulk_insert_live(stock, live); if hist or live: success += 1
RefreshSaveLive ==
    /\ refresh.pc = "save_live"
    /\ IF refresh.live # <<>> /\ ~db_up
       THEN refresh' = RefreshExcept(StoreError) /\ UNCHANGED live_data
       ELSE /\ live_data' = IF refresh.live # <<>>
                            THEN bulk_insert_live(live_data, RefreshStock, refresh.live)
                            ELSE live_data
            /\ refresh' = [refresh EXCEPT
                             !.success = IF Counted(refresh.hist, refresh.live) THEN @ + 1 ELSE @,
                             !.produced = Append(@, [stock |-> RefreshStock, hist |-> refresh.hist, live |-> refresh.live, error |-> ""]),
                             !.idx = @ + 1,
                             !.pc = RefreshAfter(refresh.idx + 1)]
    /\ UNCHANGED <<docVars, all_stocks, historical_data, processing_metadata, db_up, pc, args, passVars, ret, upload, bg, budget>>

\* last_process_count, db.log_processing(...) and the return
RefreshFinish ==
    /\ refresh.pc = "finish"
    /\ processing_metadata' =
          IF db_up THEN log_processing(processing_metadata, "full_process", refresh.success, "success",
                                       StatusMessage(refresh.success, Len(all_stocks), refresh.errors))
          ELSE processing_metadata
    /\ refresh' = [refresh EXCEPT !.last_process_count = refresh.success,
                                  !.pc = IF db_up THEN "returned" ELSE "raised",
                                  !.status = IF db_up THEN "success" ELSE ""]
    /\ UNCHANGED <<docVars, all_stocks, historical_data, live_data, db_up, pc, args, passVars, ret, upload, bg, budget>>

(***************************************************************************)
(* SpecRace: a pass of one caller beside the pass of refresh_data          *)
(***************************************************************************)
NRaceStocks == 2

InitRace ==
    /\ InitPass(NRaceStocks)
    /\ budget = NoBudget

NextRace ==
    \/ Begin
    \/ ExtractHistorical
    \/ ExtractLive
    \/ SaveHistorical
    \/ SaveLive
    \/ Finish
    \/ RefreshData
    \/ RefreshBegin
    \/ RefreshExtract
    \/ RefreshSaveHistorical
    \/ RefreshSaveLive
    \/ RefreshFinish

SpecRace == InitRace /\ [][NextRace]_vars

\* the stored rows of a stock, and the rows a row-set is stored as
StoredHistoricalOf(stock) == SelectSeq(historical_data, LAMBDA row : row.stock = Upper(stock))

StoredLiveOf(stock) == SelectSeq(live_data, LAMBDA row : row.stock = Upper(stock))

AsHistorical(stock, rows) == [i \in 1..Len(rows) |-> HistoricalData(stock, rows[i])]

AsLive(stock, rows) == [i \in 1..Len(rows) |-> LiveData(stock, rows[i])]

\* the stored rows of the stock are the two row-sets of one attempt
Mirrors(stock, a) ==
    /\ StoredHistoricalOf(stock) = AsHistorical(stock, a.hist)
    /\ StoredLiveOf(stock) = AsLive(stock, a.live)

\* C19: once a pass with clear_existing = True has completed and no other
\* pass is under way, the stored historical and live rows of every stock
\* are the row-sets that one pass produced for it, for any interleaving of
\* the passes
C19_TablesMirrorOnePass ==
    (Completed /\ args.clear_existing /\ refresh.pc \in {"idle", "returned"}) =>
        \A i \in 1..Len(all_stocks) :
            \/ Mirrors(all_stocks[i], attempts[i])
            \/ refresh.pc = "returned" /\ i <= Len(refresh.produced) /\ Mirrors(all_stocks[i], refresh.produced[i])

\* C20: no document access of a pass fails or sees an incomplete file
\* because an upload deletes and rewrites the files beside it: with
\* well-formed workbooks before and after the upload, every sheet listing
\* and every sheet read of every attempt succeeds
C20_NoTornRead ==
    \A i \in 1..Len(attempts) :
        /\ attempts[i].found.hist_failed_at \notin {1, 2}
        /\ attempts[i].found.live_failed_at \notin {1, 2, 4, 5}


(***************************************************************************)
(* SpecScan: extract_live_table applied to live sheets of every shape      *)
(***************************************************************************)
\* the rows below the first row of the live sheet
MaxScanRows == 4

ScanKinds == {"lt", "ltf", "options", "both", "support", "empty", "data"}

\* the row of a kind at row i of the sheet; a data row bears its row in its labels
ScanRowOf(kind, i) ==
    CASE kind = "lt"      -> MarkerRow("LT")
      [] kind = "ltf"     -> MarkerRow("LTF")
      [] kind = "options" -> LiveCells("Options chain", "", "", "", "", "")
      [] kind = "both"    -> LiveCells("Call Resistance", "Prev OI", "Strike", "Put Resistance", "Prev OI", "Strike")
      [] kind = "support" -> LiveCells("Call Support", "Prev OI", "Strike", "", "", "")
      [] kind = "empty"   -> EmptyRow
      [] kind = "data"    -> LiveCells("C" \o IntToDigits(i), "12000", " 3,000 ", "P" \o IntToDigits(i), "n/a", "3100")

ScanGridOf(kinds) == [i \in 1..Len(kinds) |-> ScanRowOf(kinds[i], i)]

\* a sheet read by pandas has the same number of columns in every row
Narrowed(grid, width) == [i \in 1..Len(grid) |-> SubSeq(grid[i], 1, width)]

\* the numbers of columns of the live sheet: one short of MinCols, and MinCols
ScanWidths == {MinCols - 1, MinCols}

ScanGrids ==
    { Narrowed(ScanGridOf(<<first>> \o rest), width) :
        first \in {"lt", "ltf"}, rest \in [1..MaxScanRows -> ScanKinds], width \in ScanWidths }

ScanHistBook == HistBook(<<HistRowOf("LT", "Call Resistance", "3000", "12000"), HistRowOf("LTF", "Put Resistance", "3100", "900")>>)

InitScan ==
    /\ hist_file = File("ok", ScanHistBook)
    /\ live_file \in { File("ok", LiveBook(g)) : g \in ScanGrids }
    /\ today = Today
    /\ all_stocks = <<>>
    /\ EmptyStore
    /\ db_up = TRUE
    /\ pc = "call"
    /\ args = [stock |-> "LT"]
    /\ ret = NoRet
    /\ IdlePass
    /\ upload = NoUpload
    /\ refresh = NoRefresh
    /\ bg = NoBg
    /\ budget = NoBudget

SpecScan == InitScan /\ [][NextLive]_vars

\* the sheet row a returned row was read from, by its label
OriginOf(row) == DigitsToInt(Tail(row.Label))

\* the raw grid of the live sheet, its flattened texts and the start row of the stock
ScanTexts == Texts(LiveGrid)

ScanStart == _find_live_block_start(ScanTexts, KeepChars(IsWordChar, Upper(args.stock)))

\* a line beginning with OPT, a separator and an alphanumeric token
BeginsMarker(u) == StartsWith(u, "OPT") /\ Len(u) >= 5 /\ IsSep(CharAt(u, 4)) /\ IsAlnum(CharAt(u, 5))

\* the first row after the start row whose text begins so, else the end of the sheet
MarkerEnd(texts, start) ==
    LET at == { j \in (start + 1)..Len(texts) : BeginsMarker(Upper(LStrip(texts[j]))) }
    IN  IF at = {} THEN Len(texts) + 1 ELSE CHOOSE j \in at : \A k \in at : j <= k

\* C22: the block scanned for the stock runs from its start row to the first
\* later row whose text begins with OPT, a separator and an alphanumeric
\* token, or to the end of the sheet; the rows returned are the rows of
\* that block, so a row beginning with OPT and letters without a separator
\* does not end it
C22_BlockEndsAtNextMarker ==
    (pc = "returned" /\ ScanStart # 0) =>
        ret.rows = LiveRows(IndexOfStock(args.stock), args.stock,
                            SubSeq(LiveGrid, ScanStart, MarkerEnd(ScanTexts, ScanStart) - 1))

\* the rows of the sheet that bear a header of the section
HeadersOf(name) == { h \in 1..Len(LiveGrid) : Contains(Lower(LineText(LiveGrid[h])), Lower(name)) }

\* row r lies under header row h with no stopping row from h + 1 to r
Under(h, r) == h < r /\ \A q \in (h + 1)..r : ~Stops(LiveGrid[q])

IsDataRow(r) == StartsWith(LiveGrid[r][1], "C") /\ ~Stops(LiveGrid[r])

ReturnedFrom(r) == \E i \in 1..Len(ret.rows) : OriginOf(ret.rows[i]) = r

\* C23: no returned row comes from a header row or from an all-empty row,
\* and every returned row of a section lies under a header of that section
\* with no empty row and no header row between the header and the row
C23_ScanStopsAtEmptyOrHeader ==
    pc = "returned" =>
        \A i \in 1..Len(ret.rows) :
            /\ OriginOf(ret.rows[i]) \in 1..Len(LiveGrid)
            /\ ~Stops(LiveGrid[OriginOf(ret.rows[i])])
            /\ \E h \in HeadersOf(ret.rows[i].Section) : Under(h, OriginOf(ret.rows[i]))

\* a data row is returned, and a data row of the block below an empty row is not
C23_Witness ==
    /\ pc = "returned"
    /\ ScanStart = 1
    /\ \E r, e, d \in 2..Len(LiveGrid) :
        /\ r < e /\ e < d
        /\ d < BlockEnd(ScanTexts, ScanStart)
        /\ ReturnedFrom(r)
        /\ LiveGrid[e] = EmptyRow
        /\ IsDataRow(d) /\ ~ReturnedFrom(d)


\* the section a header row names, the first of the four when it names several
HeaderNamed(tl) == SectionNames[CHOOSE n \in 1..4 : Contains(tl, Lower(SectionNames[n])) /\ \A m \in 1..(n - 1) : ~Contains(tl, Lower(SectionNames[m]))]

\* the explicit scanner over the rows of a block: active is "" for
\* NoActiveSection and the section name for InSection(name); the rows it
\* emits, as [sec, r] with r the row of the sheet
RECURSIVE Scanner(_, _, _, _)
ScannerRow(block, r, active, first, row_vals) ==
    IF HasHeader(Lower(Join(" ", row_vals))) THEN Scanner(block, r + 1, HeaderNamed(Lower(Join(" ", row_vals))), first)
    ELSE IF \A i \in 1..Len(row_vals) : row_vals[i] = "" THEN Scanner(block, r + 1, "", first)
    ELSE IF active = "" \/ Len(row_vals) < MinCols THEN Scanner(block, r + 1, active, first)
    ELSE {[sec |-> active, r |-> first + r - 1]} \cup Scanner(block, r + 1, active, first)

Scanner(block, r, active, first) ==
    IF r > Len(block) THEN {} ELSE ScannerRow(block, r, active, first, StripAll(block[r]))

\* the rows returned, as [sec, r] with r the row of the sheet
ReturnedPairs == { [sec |-> ret.rows[i].Section, r |-> OriginOf(ret.rows[i])] : i \in 1..Len(ret.rows) }

\* C24: every sheet row of the block gives at most one returned row, of the
\* section whose header is the nearest above it: the rows returned are the
\* rows the explicit scanner with states NoActiveSection and
\* InSection(name) emits over the block, so the rows under every occurrence
\* of a header are returned and no row is returned for two sections
C24_ExplicitScanner ==
    (pc = "returned" /\ ScanStart # 0) =>
        /\ ReturnedPairs = Scanner(Block(LiveGrid, args.stock), 1, "", ScanStart)
        /\ \A i, j \in 1..Len(ret.rows) : OriginOf(ret.rows[i]) = OriginOf(ret.rows[j]) => i = j

\* the first header row of a section in the block of the stock, 0 when it has none
FirstHeaderOf(name) ==
    LET at == { h \in HeadersOf(name) : ScanStart <= h /\ h < BlockEnd(ScanTexts, ScanStart) }
    IN  IF at = {} THEN 0 ELSE CHOOSE h \in at : \A k \in at : h <= k

\* C25: the returned rows are grouped by section, the groups in the order
\* in which the headers of their sections are first met going down the
\* block, the rows of a group in sheet order; every Section is one of the
\* four labels
C25_DiscoveryOrder ==
    pc = "returned" =>
        /\ \A i \in 1..Len(ret.rows) : \E n \in 1..4 : ret.rows[i].Section = SectionNames[n]
        /\ \A i, j \in 1..Len(ret.rows) :
            i < j =>
                IF ret.rows[i].Section = ret.rows[j].Section
                THEN /\ OriginOf(ret.rows[i]) < OriginOf(ret.rows[j])
                     /\ \A k \in i..j : ret.rows[k].Section = ret.rows[i].Section
                ELSE /\ FirstHeaderOf(ret.rows[i].Section) # 0
                     /\ FirstHeaderOf(ret.rows[i].Section) <= FirstHeaderOf(ret.rows[j].Section)

\* a group of Call Resistance rows is returned before a group of Call
\* Support rows, the order of their headers in the block
C25_Witness ==
    /\ pc = "returned"
    /\ FirstHeaderOf("Call Resistance") # 0
    /\ FirstHeaderOf("Call Resistance") < FirstHeaderOf("Call Support")
    /\ \E i, j \in 1..Len(ret.rows) :
        i < j /\ ret.rows[i].Section = "Call Resistance" /\ ret.rows[j].Section = "Call Support"


\* the number of columns of the live sheet
ScanWidth == Len(LiveGrid[1])

\* the first of the three columns read for a section: index 0 for a call
\* section, index 6 for a put section
FirstColumn(sec_name) == IF Contains(Lower(sec_name), "call") THEN 1 ELSE 7

\* C26: a sheet row of fewer than 10 columns gives no returned row; a
\* returned row has as Label the text of the cell at index 0 of its sheet
\* row when the name of its section contains "call" and at index 6
\* otherwise, as Prev_OI the formatted number of the cell at index 1 or 7,
\* and as Strike the text of the cell at index 2 or 8 as read, not its key
C26_PositionalFields ==
    pc = "returned" =>
        /\ ScanWidth < 10 => ret.rows = <<>>
        /\ \A i \in 1..Len(ret.rows) :
            LET cells == LiveGrid[OriginOf(ret.rows[i])]
                c     == FirstColumn(ret.rows[i].Section)
            IN  /\ Len(cells) >= 10
                /\ ret.rows[i].Label = Strip(cells[c])
                /\ ret.rows[i].Prev_OI = format_number(to_number(Strip(cells[c + 1])))
                /\ ret.rows[i].Strike = Strip(cells[c + 2])

\* a call row and a put row are returned from one sheet row, the call row
\* with a Strike that is not the text of its key
C26_Witness ==
    /\ pc = "returned"
    /\ \E i, j \in 1..Len(ret.rows) :
        /\ OriginOf(ret.rows[i]) = OriginOf(ret.rows[j])
        /\ ret.rows[i].Section = "Call Resistance" /\ ret.rows[i].Strike = "3,000"
        /\ strike_key(ret.rows[i].Strike) = strike_key("3000")
        /\ ret.rows[j].Section = "Put Resistance" /\ ret.rows[j].Strike = "3100" /\ StartsWith(ret.rows[j].Label, "P")


\* the rows of the sheet whose marker names exactly the stock: OPT, any
\* separators, the stock, and nothing after it
OwnMarkers ==
    { m \in 1..Len(ScanTexts) :
        /\ MatchesBlockStart(ScanTexts[m], args.stock)
        /\ EndsWith(Upper(ScanTexts[m]), Upper(args.stock)) }

\* row r lies in the block of marker row m: below it and above the next marker row
InBlockOf(m, r) == m < r /\ \A q \in (m + 1)..r : ~MatchesBlockEnd(ScanTexts[q])

\* C27: every returned row comes from a block whose marker row names exactly
\* the stock, never from the block of another stock whose symbol begins
\* with the symbol of the stock
C27_OwnBlockOnly ==
    pc = "returned" =>
        \A i \in 1..Len(ret.rows) : \E m \in OwnMarkers : InBlockOf(m, OriginOf(ret.rows[i]))


(***************************************************************************)
(* BackgroundProcessor: start(), stop() and process_loop() on the event    *)
(* loop.  A coroutine runs alone from one await to the next.               *)
(***************************************************************************)
\* BackgroundProcessor(process_interval=6)
ProcessInterval == 6

\* time(9, 15) and time(15, 30), in seconds of the day
MarketOpen == 33300

MarketClose == 55800

\* asyncio.sleep(300) when the market is closed, asyncio.sleep(60) on error
ClosedSleep == 300

ErrorSleep == 60

MinSleep == 1

MaxStarts == 2

MaxStops == 2

MaxIterations == 3

\* datetime.now().time(): the seconds around the opening and the close
Times == {MarketOpen - 1, MarketOpen, MarketClose, MarketClose + 1}

\* (datetime.now() - start_time).total_seconds()
Elapsed == {0, 4, 9}

is_market_hours(now) == MarketOpen <= now /\ now <= MarketClose

Max(a, b) == IF a >= b THEN a ELSE b

\* mutant: except Exception catching the cancellation as well
CaughtByExcept_Every(e) == TRUE

\* except Exception as e: CancelledError derives from BaseException
CaughtByExcept(e) == e # "CancelledError"

NoIter == [now |-> 0, passes |-> 0, result |-> "", elapsed |-> 0, slept |-> 0, at |-> ""]

\* the task of asyncio.create_task(self.process_loop()), not yet run
NewLoop == [pc |-> "new", must_cancel |-> FALSE, cancelled |-> FALSE, after_cancel |-> 0, iter |-> NoIter]

\* the loop tasks that have not finished
Alive(b) == { t \in 1..Len(b.loops) : b.loops[t].pc # "ended" }

\* the loop tasks that go on when they are next run
Active(b) == { t \in Alive(b) : ~b.loops[t].must_cancel }

\* the loop tasks stop() has cancelled
CancelledLoops(b) == { t \in 1..Len(b.loops) : b.loops[t].cancelled }

\* no loop task is inside process_all_stocks: the event loop may run another coroutine
BgFree == \A t \in 1..Len(bg.loops) : bg.loops[t].pc # "pass"

Called(b, op) == [op |-> op, was_running |-> b.is_running, loops |-> Len(b.loops), cancelled |-> CancelledLoops(b)]

\* async def start(self)
start(b) ==
    IF b.is_running THEN b
    ELSE [b EXCEPT !.is_running = TRUE, !.loops = Append(@, NewLoop), !.task = Len(b.loops) + 1]

\* the return of a stop() call
StopReturned(b, t) == [pc |-> "returned", task |-> t, is_running |-> b.is_running, active |-> Active(b) # {}]

\* async def stop(self), as far as  await self.task
stop(b) ==
    IF ~b.is_running THEN [b EXCEPT !.stops = Append(@, StopReturned(b, 0))]
    ELSE IF b.task = 0 \/ b.loops[b.task].pc = "ended"
         THEN [b EXCEPT !.is_running = FALSE, !.stops = Append(@, StopReturned([b EXCEPT !.is_running = FALSE], b.task))]
         ELSE [b EXCEPT !.is_running = FALSE,
                        !.loops[b.task].must_cancel = TRUE,
                        !.loops[b.task].cancelled = TRUE,
                        !.stops = Append(@, [pc |-> "awaiting", task |-> b.task, is_running |-> FALSE, active |-> FALSE])]

BgSame == UNCHANGED <<docVars, all_stocks, dbVars, db_up, pc, args, passVars, ret, upload, refresh, budget>>

\* POST /background/start
BgStart ==
    /\ BgFree
    /\ bg.starts < MaxStarts
    /\ bg' = [start(bg) EXCEPT !.starts = @ + 1, !.last = Called(bg, "start")]
    /\ BgSame

\* POST /background/stop, as far as the await or the return
BgStop ==
    /\ BgFree
    /\ Len(bg.stops) < MaxStops
    /\ bg' = [stop(bg) EXCEPT !.last = Called(bg, "stop")]
    /\ BgSame

\* stop() resumes when the task it awaits has finished, and returns
BgStopReturn ==
    /\ BgFree
    /\ \E s \in 1..Len(bg.stops) :
        /\ bg.stops[s].pc = "awaiting"
        /\ bg.loops[bg.stops[s].task].pc = "ended"
        /\ bg' = [bg EXCEPT !.stops[s] = StopReturned(bg, bg.stops[s].task)]
    /\ BgSame

\* the cancellation reaches the task: before its first step the task ends;
\* at an await inside the try block CancelledError meets except Exception;
\* at the await of the except clause it leaves the coroutine
Thrown(l) ==
    IF l.pc = "sleep" /\ l.iter.at = "try" /\ CaughtByExcept("CancelledError")
    THEN [l EXCEPT !.must_cancel = FALSE, !.iter.slept = ErrorSleep, !.iter.at = "except"]
    ELSE [l EXCEPT !.must_cancel = FALSE, !.pc = "ended"]

BgLoopCancelled ==
    /\ BgFree
    /\ \E t \in 1..Len(bg.loops) :
        /\ bg.loops[t].pc \in {"new", "sleep"}
        /\ bg.loops[t].must_cancel
        /\ bg' = [bg EXCEPT !.loops[t] = Thrown(bg.loops[t])]
    /\ BgSame

\* the task runs from the top of  while self.is_running  to its next await:
\* the coroutine returns when is_running is false; outside market hours no
\* pass and asyncio.sleep(300); in market hours the call of
\* process_all_stocks(clear_existing=True)
BgLoopIterate ==
    /\ BgFree
    /\ \E t \in 1..Len(bg.loops), now \in Times :
        /\ bg.loops[t].pc \in {"new", "sleep"}
        /\ ~bg.loops[t].must_cancel
        /\ IF ~bg.is_running
           THEN /\ bg' = [bg EXCEPT !.loops[t].pc = "ended"]
                /\ UNCHANGED <<pc, args>>
           ELSE /\ bg.iterations < MaxIterations
                /\ IF is_market_hours(now)
                   THEN /\ bg' = [bg EXCEPT !.iterations = @ + 1,
                                            !.loops[t].pc = "pass",
                                            !.loops[t].after_cancel = IF bg.loops[t].cancelled THEN @ + 1 ELSE @,
                                            !.loops[t].iter = [NoIter EXCEPT !.now = now]]
                        /\ pc' = "call"
                        /\ args' = [clear_existing |-> TRUE]
                   ELSE /\ bg' = [bg EXCEPT !.iterations = @ + 1,
                                            !.loops[t].pc = "sleep",
                                            !.loops[t].iter = [NoIter EXCEPT !.now = now, !.slept = ClosedSleep, !.at = "try"]]
                        /\ UNCHANGED <<pc, args>>
    /\ UNCHANGED <<docVars, all_stocks, dbVars, db_up, passVars, ret, upload, refresh, budget>>

\* the seconds slept after the pass: result['stocks_processed'] raises
\* KeyError on the result of a pass that found a document missing, and an
\* exception of the pass or of the print reaches except Exception
SleepAfter(outcome, result, elapsed) ==
    IF outcome = "raised" \/ result.status = "error"
    THEN [slept |-> ErrorSleep, at |-> "except"]
    ELSE [slept |-> Max(MinSleep, ProcessInterval - elapsed), at |-> "try"]

\* from the return of process_all_stocks to the await of the sleep
BgLoopAfterPass ==
    /\ pc \in {"returned", "raised"}
    /\ \E t \in 1..Len(bg.loops), elapsed \in Elapsed :
        /\ bg.loops[t].pc = "pass"
        /\ bg' = [bg EXCEPT !.loops[t].pc = "sleep",
                            !.loops[t].iter = [@ EXCEPT !.passes = @ + 1,
                                                        !.result = pc,
                                                        !.elapsed = elapsed,
                                                        !.slept = SleepAfter(pc, ret, elapsed).slept,
                                                        !.at = SleepAfter(pc, ret, elapsed).at]]
    /\ pc' = "idle"
    /\ ret' = NoRet
    /\ idx' = 0
    /\ hist' = <<>>
    /\ live' = <<>>
    /\ seen' = NoSeen
    /\ success' = 0
    /\ errors' = <<>>
    /\ attempts' = <<>>
    /\ begun' = NoBegun
    /\ UNCHANGED <<docVars, all_stocks, dbVars, db_up, args, last_process_count, upload, refresh, budget>>

(***************************************************************************)
(* SpecLoop: start() and stop() requests beside the processing loop        *)
(***************************************************************************)
InitLoop ==
    /\ hist_file \in {File("ok", HistBook(UniverseHistRows(1))), File("missing", <<>>)}
    /\ live_file = File("ok", LiveBook(UniverseLiveGrid))
    /\ today = Today
    /\ all_stocks = Universe(1)
    /\ EmptyStore
    /\ db_up = TRUE
    /\ pc = "idle"
    /\ args = [clear_existing |-> TRUE]
    /\ ret = NoRet
    /\ IdlePass
    /\ upload = NoUpload
    /\ refresh = NoRefresh
    /\ bg = NoBg
    /\ budget = NoBudget

NextLoop ==
    \/ BgStart
    \/ BgStop
    \/ BgStopReturn
    \/ BgLoopCancelled
    \/ BgLoopIterate
    \/ Begin
    \/ ExtractHistorical
    \/ ExtractLive
    \/ SaveHistorical
    \/ SaveLive
    \/ Finish
    \/ BgLoopAfterPass

SpecLoop == InitLoop /\ [][NextLoop]_vars

(***************************************************************************)
(* Properties of the background processor (SpecLoop)                       *)
(***************************************************************************)
\* C28: at most one loop task is able to begin a pass at any time: a
\* start() that finds is_running true creates no task, a stop() that finds
\* is_running false changes nothing, and a loop task that stop() has
\* cancelled begins no pass afterwards
C28_OneLoopAtMost ==
    /\ Cardinality(Active(bg)) <= 1
    /\ (bg.last.op = "start" /\ bg.last.was_running) => Len(bg.loops) = bg.last.loops
    /\ (bg.last.op = "stop" /\ ~bg.last.was_running) => (~bg.is_running /\ CancelledLoops(bg) = bg.last.cancelled)
    /\ \A t \in 1..Len(bg.loops) : bg.loops[t].after_cancel = 0

\* a second loop task runs a pass after stop() cancelled the first and
\* start() was called again while the first had not yet finished
C28_Witness ==
    /\ bg.starts = 2
    /\ Len(bg.loops) = 2
    /\ bg.loops[1].cancelled
    /\ bg.loops[2].pc = "pass"
    /\ bg.stops # <<>> /\ bg.stops[1].pc = "awaiting"

\* C29: an iteration of the loop in market hours, 09:15 to 15:30 inclusive,
\* runs one pass and then sleeps max(1, process_interval - elapsed) seconds
\* whatever result the pass returned; an iteration outside market hours
\* runs no pass and sleeps 300 seconds
C29_IterationSleeps ==
    \A t \in 1..Len(bg.loops) :
        (bg.loops[t].pc = "sleep" /\ bg.loops[t].iter.result # "raised") =>
            IF MarketOpen <= bg.loops[t].iter.now /\ bg.loops[t].iter.now <= MarketClose
            THEN /\ bg.loops[t].iter.passes = 1
                 /\ bg.loops[t].iter.slept = Max(1, ProcessInterval - bg.loops[t].iter.elapsed)
            ELSE /\ bg.loops[t].iter.passes = 0
                 /\ bg.loops[t].iter.slept = 300

\* C30: when a stop() call has returned, is_running was false and no loop
\* task was active at its return
C30_StoppedWhenStopReturns ==
    \A s \in 1..Len(bg.stops) :
        bg.stops[s].pc = "returned" => (~bg.stops[s].is_running /\ ~bg.stops[s].active)


(***************************************************************************)
(* Properties of a pass beside an upload (SpecBatch)                       *)
(***************************************************************************)
\* the row-sets of a stock in a pass that reads each document once, at its
\* start, and shares it across the stocks
HistOnce(stock) == HistoricalOfFile(begun.hist_file, stock).rows

LiveOnce(stock) == LiveOfFiles(begun.live_file, begun.hist_file, today, stock).rows

\* every document access of the pass found a whole workbook
WholeReads == \A i \in 1..Len(attempts) : attempts[i].found.hist_failed_at \notin {1, 2} /\ attempts[i].found.live_failed_at \notin {1, 2, 4, 5}

\* C21: re-reading the documents for every stock changes nothing: in a
\* completed pass that found whole workbooks at its start and at every
\* access, the historical and live rows of every stock are the rows of a
\* pass that reads each document once at its start, whatever an upload does
\* to the documents meanwhile
C21_RereadIsReadOnce ==
    (Completed /\ begun.hist_state = "ok" /\ begun.live_state = "ok" /\ WholeReads) =>
        \A i \in 1..Len(attempts) :
            /\ attempts[i].hist = HistOnce(attempts[i].stock)
            /\ attempts[i].live = LiveOnce(attempts[i].stock)

=============================================================================
